---- MODULE Spec2Model ----
(***************************************************************************)
(* A model of dirsearch-go's path-discovery engine: the scanner            *)
(* (src/main.go, package scanner), the host timing registry                *)
(* (src/internal/connection/host_manager.go, src/unnamed/part_000) and     *)
(* the status-code parser (src/internal/config/config.go).                 *)
(*                                                                         *)
(* Go strings are modelled as sequences of one-character strings, so that  *)
(* prefix, suffix, split and parse are computed and not assumed.           *)
(* Durations are integers in milliseconds.                                 *)
(***************************************************************************)
EXTENDS Integers, Sequences, FiniteSets, TLC

VARIABLES
    \* ---- smartPathJoin harness (src/main.go:492-525)
    jbase, jpath, jout, jpc,
    \* ---- shouldIncludeResult harness (src/main.go:573-617)
    cfgIncludeStatus, cfgExcludeStatus, fStatus, fOut, fpc,
    \* ---- SmartDelay harness (src/unnamed/part_000)
    sdPingDelay, sdCfgDelay, sdCfgTimeout, sdDelayOut, sdTimeoutOut, sdpc,
    \* ---- HostManager (src/internal/connection/host_manager.go)
    hosts,       \* hm.hosts: host -> cached HostInfo, or NoInfo
    hmMu,        \* hm.mu: the caller that holds the lock, 0 when free
    hmCallers,   \* each calling goroutine: where it is in its registry call
    pingCount,   \* per host, the number of pingHost calibrations made so far
    \* ---- Scanner (src/main.go)
    scanPc,        \* "idle", "running" (inside Scan), "done" (Scan returned), "failed"
    scanTargets,   \* the targets handed to Scan
    dictPaths,     \* what s.dictionary.GeneratePaths() returns
    cfgThreads,    \* config.General.Threads
    cfgRecursive,  \* config.View.RecursiveScan
    ctxDone,       \* s.ctx is cancelled
    stack,         \* the executeScan calls in progress, outermost first
    orphans,       \* producers of passes that returned before their producer ended
    sResults,      \* s.results
    scanRet,       \* the results Scan returned
    gotResults,    \* the value of the last GetResults() call, in a one-element list
    dirBudget,     \* how many more 200 answers the servers give
    \* ---- one call of a function: buildURL, GeneratePaths, ParseStatusCodes
    callArgs,    \* the arguments and the configuration the call reads
    callRet,     \* what the call returned
    callPc,      \* "call" before the call, "done" after it, "off" when no call is made
    \* ---- the retained result list and its readers (src/main.go:556-570, 620-634)
    heap,        \* the backing arrays of the slices, by address
    resSlice,    \* s.results: [arr, len], arr = 0 for the nil slice
    gotSlice,    \* the slice the last GetResults() call returned, held by the caller
    retained     \* the results addResult has appended so far, in order

joinVars == <<jbase, jpath, jout, jpc>>
filterVars == <<cfgIncludeStatus, cfgExcludeStatus, fStatus, fOut, fpc>>
delayVars == <<sdPingDelay, sdCfgDelay, sdCfgTimeout, sdDelayOut, sdTimeoutOut, sdpc>>
hostVars == <<hosts, hmMu, hmCallers, pingCount>>
scanVars == <<scanPc, scanTargets, dictPaths, cfgThreads, cfgRecursive, ctxDone, stack,
              orphans, sResults, scanRet, gotResults, dirBudget>>

callVars == <<callArgs, callRet, callPc>>
memVars == <<heap, resSlice, gotSlice, retained>>

nonScanVars == <<joinVars, filterVars, delayVars, hostVars, callVars, memVars>>
nonHostVars == <<joinVars, filterVars, delayVars, scanVars, callVars, memVars>>

vars == <<joinVars, filterVars, delayVars, hostVars, scanVars, callVars, memVars>>

(***************************************************************************)
(* The strings package, on sequences of characters.                        *)
(***************************************************************************)
Slash == "/"
Backslash == "\\"

\* strings.HasSuffix(s, c) for a one-character suffix c
HasSuffix(s, c) == Len(s) > 0 /\ s[Len(s)] = c

\* strings.HasPrefix(s, c) for a one-character prefix c
HasPrefix(s, c) == Len(s) > 0 /\ s[1] = c

\* strings.TrimSuffix(s, c): removes ONE trailing c, when there is one
TrimSuffix(s, c) == IF HasSuffix(s, c) THEN SubSeq(s, 1, Len(s) - 1) ELSE s

\* strings.Contains(s, c) for a one-character c
Contains(s, c) == \E i \in 1..Len(s) : s[i] = c

\* strings.HasPrefix, strings.HasSuffix and strings.Contains for any string
HasPrefixSeq(s, p) == Len(s) >= Len(p) /\ SubSeq(s, 1, Len(p)) = p
HasSuffixSeq(s, p) == Len(s) >= Len(p) /\ SubSeq(s, Len(s) - Len(p) + 1, Len(s)) = p
ContainsSeq(s, p) == \E i \in 0..(Len(s) - Len(p)) : SubSeq(s, i + 1, i + Len(p)) = p

(***************************************************************************)
(* Scanner.smartPathJoin, branch by branch.                                *)
(***************************************************************************)
\* the bug of treating every path that holds a separator as already rooted
smartPathJoinRootedIfSeparator(base, path) ==
    LET b == TrimSuffix(TrimSuffix(base, Slash), Backslash) IN
    IF path = <<>> THEN b \o <<Slash>>
    ELSE IF Contains(path, Slash) \/ Contains(path, Backslash) THEN b \o path
    ELSE b \o <<Slash>> \o path

smartPathJoin(base, path) ==
    LET b == TrimSuffix(TrimSuffix(base, Slash), Backslash) IN
    IF path = <<>> THEN b \o <<Slash>>
    ELSE IF HasPrefix(path, Slash) \/ HasPrefix(path, Backslash) THEN b \o path
    ELSE IF HasSuffix(path, Slash) \/ HasSuffix(path, Backslash) THEN b \o <<Slash>> \o path
    ELSE IF Contains(path, Slash) \/ Contains(path, Backslash) THEN b \o <<Slash>> \o path
    ELSE b \o <<Slash>> \o path

(***************************************************************************)
(* config.ParseStatusCodes and its helpers (strings.Split,                 *)
(* strings.TrimSpace, fmt.Sscanf("%d")).                                   *)
(***************************************************************************)
Space == " "
Comma == ","
Dash == "-"
DigitChars == <<"0", "1", "2", "3", "4", "5", "6", "7", "8", "9">>

IsDigit(c) == \E i \in 1..10 : DigitChars[i] = c
DigitVal(c) == (CHOOSE i \in 1..10 : DigitChars[i] = c) - 1

\* the index of the first c in s, 0 when there is none
IndexOf(s, c) ==
    IF Contains(s, c) THEN CHOOSE i \in 1..Len(s) : s[i] = c /\ \A j \in 1..(i - 1) : s[j] # c
    ELSE 0

RECURSIVE Split(_, _)
\* strings.Split(s, sep) for a one-character separator
Split(s, sep) ==
    LET i == IndexOf(s, sep) IN
    IF i = 0 THEN <<s>>
    ELSE <<SubSeq(s, 1, i - 1)>> \o Split(SubSeq(s, i + 1, Len(s)), sep)

RECURSIVE TrimLeft(_)
TrimLeft(s) == IF HasPrefix(s, Space) THEN TrimLeft(SubSeq(s, 2, Len(s))) ELSE s

RECURSIVE TrimRight(_)
TrimRight(s) == IF HasSuffix(s, Space) THEN TrimRight(SubSeq(s, 1, Len(s) - 1)) ELSE s

\* strings.TrimSpace
TrimSpace(s) == TrimRight(TrimLeft(s))

RECURSIVE DigitPrefix(_)
\* the longest prefix of s made of decimal digits
DigitPrefix(s) ==
    IF Len(s) > 0 /\ IsDigit(s[1]) THEN <<s[1]>> \o DigitPrefix(SubSeq(s, 2, Len(s))) ELSE <<>>

RECURSIVE DecimalValue(_)
DecimalValue(ds) ==
    IF ds = <<>> THEN 0
    ELSE 10 * DecimalValue(SubSeq(ds, 1, Len(ds) - 1)) + DigitVal(ds[Len(ds)])

\* parseInt: fmt.Sscanf(s, "%d", &result) skips leading blanks, takes an optional
\* sign and then the digits that follow; what comes after the digits is left
\* unread and is no error.  No digit at all is an error.
parseInt(s) ==
    LET t == TrimLeft(s)
        neg == HasPrefix(t, Dash)
        u == IF HasPrefix(t, Dash) \/ HasPrefix(t, "+") THEN SubSeq(t, 2, Len(t)) ELSE t
        ds == DigitPrefix(u)
    IN  IF ds = <<>> THEN [err |-> TRUE, val |-> 0]
        ELSE [err |-> FALSE, val |-> IF neg THEN 0 - DecimalValue(ds) ELSE DecimalValue(ds)]

\* the bug of a range that stops one short of its end
ParsePartExclusiveEnd(rawPart) ==
    LET part == TrimSpace(rawPart) IN
    IF part = <<>> THEN <<>>
    ELSE IF Contains(part, Dash) THEN
        LET rangeParts == Split(part, Dash) IN
        IF Len(rangeParts) = 2 THEN
            LET startCode == parseInt(TrimSpace(rangeParts[1]))
                endCode == parseInt(TrimSpace(rangeParts[2]))
            IN  IF startCode.err \/ endCode.err THEN <<>>
                ELSE IF endCode.val <= startCode.val THEN <<>>
                ELSE [i \in 1..(endCode.val - startCode.val) |-> startCode.val + i - 1]
        ELSE <<>>
    ELSE
        LET code == parseInt(part) IN
        IF code.err THEN <<>> ELSE <<code.val>>

\* the codes one comma-separated part contributes (the body of the loop)
ParsePart(rawPart) ==
    LET part == TrimSpace(rawPart) IN
    IF part = <<>> THEN <<>>
    ELSE IF Contains(part, Dash) THEN
        LET rangeParts == Split(part, Dash) IN
        IF Len(rangeParts) = 2 THEN
            LET startCode == parseInt(TrimSpace(rangeParts[1]))
                endCode == parseInt(TrimSpace(rangeParts[2]))
            IN  IF startCode.err \/ endCode.err THEN <<>>
                ELSE IF endCode.val < startCode.val THEN <<>>
                ELSE [i \in 1..(endCode.val - startCode.val + 1) |-> startCode.val + i - 1]
        ELSE <<>>
    ELSE
        LET code == parseInt(part) IN
        IF code.err THEN <<>> ELSE <<code.val>>

RECURSIVE ParseParts(_)
ParseParts(parts) ==
    IF parts = <<>> THEN <<>> ELSE ParsePart(Head(parts)) \o ParseParts(Tail(parts))

\* config.ParseStatusCodes: the codes, and the error it returns (never one)
ParseStatusCodes(statusStr) ==
    IF statusStr = <<>> THEN [codes |-> <<>>, err |-> FALSE]
    ELSE [codes |-> ParseParts(Split(statusStr, Comma)), err |-> FALSE]

\* whether some entry of a status list parses without error to a list holding status
StatusListed(list, status) ==
    \E k \in 1..Len(list) :
        LET parsed == ParseStatusCodes(list[k]) IN
        ~parsed.err /\ \E i \in 1..Len(parsed.codes) : parsed.codes[i] = status

(***************************************************************************)
(* Scanner.shouldIncludeResult, over s.config.General.IncludeStatus and    *)
(* ExcludeStatus.                                                          *)
(***************************************************************************)
\* the bug of letting a configured include list decide alone
shouldIncludeResultInclusionWins(include, exclude, status) ==
    IF Len(include) > 0
    THEN StatusListed(include, status)
    ELSE ~StatusListed(exclude, status)

shouldIncludeResult(include, exclude, status) ==
    IF Len(include) > 0 /\ ~StatusListed(include, status) THEN FALSE
    ELSE IF StatusListed(exclude, status) THEN FALSE
    ELSE TRUE

(***************************************************************************)
(* SmartDelay (src/unnamed/part_000), durations in milliseconds.           *)
(***************************************************************************)
DelayMultiplier == 10
TimeoutMultiplier == 30
MinDelayMs == 100
MaxDelayMs == 5000
MinTimeoutMs == 5000
MaxTimeoutMs == 30000

\* SmartDelay.GetSmartDelay; baseDelay is the configured delay (NewSmartDelay)
GetSmartDelay(pingDelay, baseDelay) ==
    IF pingDelay > 0 THEN
        LET smartDelay == pingDelay * DelayMultiplier IN
        IF smartDelay < MinDelayMs THEN MinDelayMs
        ELSE IF smartDelay > MaxDelayMs THEN MaxDelayMs
        ELSE smartDelay
    ELSE baseDelay

\* SmartDelay.GetTimeout; cfgTimeout is config.Connection.Timeout
GetTimeout(pingDelay, cfgTimeout) ==
    IF pingDelay > 0 THEN
        LET timeout == pingDelay * TimeoutMultiplier IN
        IF timeout < MinTimeoutMs THEN MinTimeoutMs
        ELSE IF timeout > MaxTimeoutMs THEN MaxTimeoutMs
        ELSE timeout
    ELSE cfgTimeout

SlowFactor == 20
DefaultSlowMs == 2000

\* SmartDelay.IsSlowResponse
IsSlowResponse(pingDelay, responseTime) ==
    IF pingDelay > 0 THEN responseTime > pingDelay * SlowFactor
    ELSE responseTime > DefaultSlowMs

(***************************************************************************)
(* Harness states: a harness that is not running holds these values.       *)
(***************************************************************************)
JoinIdle == jbase = <<>> /\ jpath = <<>> /\ jout = <<>> /\ jpc = "off"

FilterIdle ==
    /\ cfgIncludeStatus = <<>> /\ cfgExcludeStatus = <<>>
    /\ fStatus = 0 /\ fOut = FALSE /\ fpc = "off"

DelayIdle ==
    /\ sdPingDelay = 0 /\ sdCfgDelay = 0 /\ sdCfgTimeout = 0
    /\ sdDelayOut = 0 /\ sdTimeoutOut = 0 /\ sdpc = "off"

HostIdle == hosts = <<>> /\ hmMu = 0 /\ hmCallers = <<>> /\ pingCount = <<>>

ScanIdle ==
    /\ scanPc = "off" /\ scanTargets = <<>> /\ dictPaths = <<>>
    /\ cfgThreads = 0 /\ cfgRecursive = FALSE /\ ctxDone = FALSE
    /\ stack = <<>> /\ orphans = <<>> /\ sResults = <<>> /\ scanRet = <<>>
    /\ gotResults = <<>> /\ dirBudget = 0

CallIdle == callArgs = <<>> /\ callRet = <<>> /\ callPc = "off"

NilSlice == [arr |-> 0, len |-> 0]
MemIdle == heap = <<>> /\ resSlice = NilSlice /\ gotSlice = NilSlice /\ retained = <<>>

(***************************************************************************)
(* The smartPathJoin harness: one call on each base and path.              *)
(***************************************************************************)
HttpsH == <<"h","t","t","p","s",":","/","/","h">>
ExampleCom == <<"h","t","t","p","s",":","/","/","e","x","a","m","p","l","e",".","c","o","m">>
Admin == <<"a","d","m","i","n">>

JoinBases ==
    { HttpsH, HttpsH \o <<Slash>>, HttpsH \o <<Backslash>>,
      HttpsH \o <<Backslash, Slash>>, HttpsH \o <<Slash, Backslash>>,
      HttpsH \o <<Slash, Slash>>,
      ExampleCom, ExampleCom \o <<Slash>>, ExampleCom \o <<Backslash>> }

JoinPaths ==
    { <<>>, <<"x">>, <<Slash, "x">>, <<Backslash, "x">>,
      <<"a", Slash, "b">>, <<"a", Backslash, "b">>, <<"a", Slash>>, <<"a", Backslash>>,
      <<Slash, "a", Slash, "b", Slash>>,
      Admin, <<Slash>> \o Admin, <<Backslash>> \o Admin }

JoinInit ==
    /\ jbase \in JoinBases
    /\ jpath \in JoinPaths
    /\ jout = <<>>
    /\ jpc = "call"
    /\ FilterIdle /\ DelayIdle /\ HostIdle /\ ScanIdle /\ CallIdle /\ MemIdle

\* one call of s.smartPathJoin(jbase, jpath)
JoinCall ==
    /\ jpc = "call"
    /\ jout' = smartPathJoin(jbase, jpath)
    /\ jpc' = "done"
    /\ UNCHANGED <<jbase, jpath, filterVars, delayVars, hostVars, scanVars, callVars, memVars>>

JoinNext == JoinCall

JoinSpec == JoinInit /\ [][JoinNext]_vars

(***************************************************************************)
(* The shouldIncludeResult harness.  A status list is written by the user  *)
(* as text; StatusItems are the codes and ranges the user means, and       *)
(* RenderEntry is the text of them that the configuration holds.           *)
(***************************************************************************)
MaxStatusEntries == 2

RECURSIVE Itoa(_)
\* the decimal text of n >= 0
Itoa(n) == IF n < 10 THEN <<DigitChars[n + 1]>> ELSE Itoa(n \div 10) \o <<DigitChars[(n % 10) + 1]>>

CodeItem(c) == [kind |-> "code", a |-> c, b |-> c]
RangeItem(lo, hi) == [kind |-> "range", a |-> lo, b |-> hi]
JunkItem == [kind |-> "junk", a |-> 0, b |-> 0]

RenderItem(it) ==
    IF it.kind = "code" THEN Itoa(it.a)
    ELSE IF it.kind = "range" THEN Itoa(it.a) \o <<Dash>> \o Itoa(it.b)
    ELSE <<"a", "b", "c">>

RECURSIVE RenderEntry(_)
RenderEntry(items) ==
    IF Len(items) = 1 THEN RenderItem(items[1])
    ELSE RenderItem(items[1]) \o <<Comma>> \o RenderEntry(Tail(items))

RenderList(entries) == [k \in 1..Len(entries) |-> RenderEntry(entries[k])]

StatusEntries ==
    { <<CodeItem(200)>>, <<CodeItem(301)>>, <<RangeItem(301, 302)>>,
      <<CodeItem(200), CodeItem(404)>>, <<JunkItem>> }

StatusLists == UNION { [1..k -> StatusEntries] : k \in 0..MaxStatusEntries }

FilterStatuses == {200, 301, 302, 404}

FilterInit ==
    /\ \E inc \in StatusLists : cfgIncludeStatus = RenderList(inc)
    /\ \E exc \in StatusLists : cfgExcludeStatus = RenderList(exc)
    /\ fStatus \in FilterStatuses
    /\ fOut = FALSE
    /\ fpc = "call"
    /\ JoinIdle /\ DelayIdle /\ HostIdle /\ ScanIdle /\ CallIdle /\ MemIdle

\* one call of s.shouldIncludeResult(result) with result.StatusCode = fStatus
FilterCall ==
    /\ fpc = "call"
    /\ fOut' = shouldIncludeResult(cfgIncludeStatus, cfgExcludeStatus, fStatus)
    /\ fpc' = "done"
    /\ UNCHANGED <<cfgIncludeStatus, cfgExcludeStatus, fStatus, joinVars, delayVars, hostVars, scanVars, callVars, memVars>>

FilterNext == FilterCall

FilterSpec == FilterInit /\ [][FilterNext]_vars

(***************************************************************************)
(* The SmartDelay harness: a SmartDelay whose pingDelay is the measured    *)
(* baseline, asked for its delay and its timeout.                          *)
(***************************************************************************)
MaxBaselineMs == 10000

\* config.Connection.Delay and Timeout after validateConfig: the defaults
\* (delay 0, timeout 7.5 s) and a configured pair
DefaultDelayMs == 0
DefaultTimeoutMs == 7500
DelayConfigs ==
    { [delay |-> DefaultDelayMs, timeout |-> DefaultTimeoutMs],
      [delay |-> 1000, timeout |-> 2000] }

DelayInit ==
    /\ sdPingDelay \in 0..MaxBaselineMs
    /\ \E c \in DelayConfigs : sdCfgDelay = c.delay /\ sdCfgTimeout = c.timeout
    /\ sdDelayOut = 0
    /\ sdTimeoutOut = 0
    /\ sdpc = "new"
    /\ JoinIdle /\ FilterIdle /\ HostIdle /\ ScanIdle /\ CallIdle /\ MemIdle

\* sd.GetSmartDelay()
SDGetSmartDelay ==
    /\ sdpc \in {"new", "timeout"}
    /\ sdDelayOut' = GetSmartDelay(sdPingDelay, sdCfgDelay)
    /\ sdpc' = IF sdpc = "new" THEN "delay" ELSE "both"
    /\ UNCHANGED <<sdPingDelay, sdCfgDelay, sdCfgTimeout, sdTimeoutOut, joinVars, filterVars, hostVars, scanVars, callVars, memVars>>

\* sd.GetTimeout()
SDGetTimeout ==
    /\ sdpc \in {"new", "delay"}
    /\ sdTimeoutOut' = GetTimeout(sdPingDelay, sdCfgTimeout)
    /\ sdpc' = IF sdpc = "new" THEN "timeout" ELSE "both"
    /\ UNCHANGED <<sdPingDelay, sdCfgDelay, sdCfgTimeout, sdDelayOut, joinVars, filterVars, hostVars, scanVars, callVars, memVars>>

DelayNext == SDGetSmartDelay \/ SDGetTimeout

DelaySpec == DelayInit /\ [][DelayNext]_vars

(***************************************************************************)
(* The HostManager under concurrent callers.  A caller is a goroutine (a   *)
(* worker inside Requester.Request or after scanPath) that makes one       *)
(* registry call after the other.                                          *)
(***************************************************************************)
NumCallers == 2
Callers == 1..NumCallers
HostKeys == {"a:80", "b"}
EmptyHost == ""
HostOps == {"GetOrCreateHostInfo", "GetSmartDelay", "GetTimeout", "IsSlowResponse"}
\* the latencies a successful TCP connect measures, and the response time passed
\* to IsSlowResponse
PingDelays == {5, 200}
ResponseTimeMs == 1500

NoInfo == [cached |-> FALSE, PingDelay |-> 0, IsAlive |-> FALSE]
CallerIdle == [pc |-> "idle", op |-> "", host |-> "", hit |-> FALSE, info |-> NoInfo, ret |-> 0]

HostInit ==
    /\ hosts = [h \in HostKeys |-> NoInfo]
    /\ hmMu = 0
    /\ hmCallers = [c \in Callers |-> CallerIdle]
    /\ pingCount = [h \in HostKeys |-> 0]
    /\ JoinIdle /\ FilterIdle /\ DelayIdle /\ ScanIdle /\ CallIdle /\ MemIdle

\* a goroutine calls hm.GetOrCreateHostInfo(host), directly or through GetSmartDelay,
\* GetTimeout or IsSlowResponse
HMCall(c, op, host) ==
    /\ hmCallers[c].pc = "idle"
    /\ hmCallers' = [hmCallers EXCEPT ![c] = [CallerIdle EXCEPT !.pc = "enter", !.op = op, !.host = host]]
    /\ UNCHANGED <<hosts, hmMu, pingCount>>
    /\ UNCHANGED nonHostVars

\* host == "": a fresh HostInfo, without the lock and without a calibration
HMEmptyHost(c) ==
    /\ hmCallers[c].pc = "enter"
    /\ hmCallers[c].host = EmptyHost
    /\ hmCallers' = [hmCallers EXCEPT ![c].pc = "gotinfo",
                                      ![c].info = [NoInfo EXCEPT !.cached = FALSE]]
    /\ UNCHANGED <<hosts, hmMu, pingCount>>
    /\ UNCHANGED nonHostVars

\* hm.mu.Lock() can be taken
MuAvailableNoExclusion == TRUE

MuAvailable == hmMu = 0

\* Lock, the host is cached: return it (the deferred Unlock runs)
HMLockHit(c) ==
    /\ hmCallers[c].pc = "enter"
    /\ hmCallers[c].host # EmptyHost
    /\ MuAvailable
    /\ hosts[hmCallers[c].host].cached
    /\ hmCallers' = [hmCallers EXCEPT ![c].pc = "gotinfo", ![c].hit = TRUE,
                                      ![c].info = hosts[hmCallers[c].host]]
    /\ UNCHANGED <<hosts, hmMu, pingCount>>
    /\ UNCHANGED nonHostVars

\* Lock, the host is not cached: go on to pingHost, holding the lock
HMLockMiss(c) ==
    /\ hmCallers[c].pc = "enter"
    /\ hmCallers[c].host # EmptyHost
    /\ MuAvailable
    /\ ~hosts[hmCallers[c].host].cached
    /\ hmMu' = c
    /\ hmCallers' = [hmCallers EXCEPT ![c].pc = "pinging"]
    /\ UNCHANGED <<hosts, pingCount>>
    /\ UNCHANGED nonHostVars

\* pingHost returns (connect to :80, else to :443): the info is cached, also when
\* both connects failed, and the lock is released
HMPing(c, ok, delay) ==
    /\ hmCallers[c].pc = "pinging"
    /\ LET h == hmCallers[c].host
           info == IF ok THEN [cached |-> TRUE, PingDelay |-> delay, IsAlive |-> TRUE]
                   ELSE [cached |-> TRUE, PingDelay |-> 0, IsAlive |-> FALSE]
       IN  /\ pingCount' = [pingCount EXCEPT ![h] = @ + 1]
           /\ hosts' = [hosts EXCEPT ![h] = info]
           /\ hmCallers' = [hmCallers EXCEPT ![c].pc = "gotinfo", ![c].info = info]
    /\ hmMu' = 0
    /\ UNCHANGED nonHostVars

\* the caller's own tail: info.SmartDelay.GetSmartDelay() and the like
HMReturn(c) ==
    /\ hmCallers[c].pc = "gotinfo"
    /\ LET me == hmCallers[c]
           ret == IF me.op = "GetSmartDelay" THEN GetSmartDelay(me.info.PingDelay, DefaultDelayMs)
                  ELSE IF me.op = "GetTimeout" THEN GetTimeout(me.info.PingDelay, DefaultTimeoutMs)
                  ELSE IF me.op = "IsSlowResponse"
                       THEN (IF IsSlowResponse(me.info.PingDelay, ResponseTimeMs) THEN 1 ELSE 0)
                  ELSE 0
       IN  hmCallers' = [hmCallers EXCEPT ![c] = [CallerIdle EXCEPT !.ret = ret]]
    /\ UNCHANGED <<hosts, hmMu, pingCount>>
    /\ UNCHANGED nonHostVars

HostNext ==
    \/ \E c \in Callers, op \in HostOps, h \in HostKeys \cup {EmptyHost} : HMCall(c, op, h)
    \/ \E c \in Callers : HMEmptyHost(c)
    \/ \E c \in Callers : HMLockHit(c)
    \/ \E c \in Callers : HMLockMiss(c)
    \/ \E c \in Callers, d \in PingDelays : HMPing(c, TRUE, d)
    \/ \E c \in Callers : HMPing(c, FALSE, 0)
    \/ \E c \in Callers : HMReturn(c)

HostSpec == HostInit /\ [][HostNext]_vars

(***************************************************************************)
(* The Scanner (src/main.go): Scan, executeScan with its producer, workers *)
(* and collector goroutines, performRecursiveScan, Stop and GetResults.    *)
(***************************************************************************)
MaxThreads == 2
MaxLoad == 4
MaxDirAnswers == 4
DefaultThreads == 25
MaxRecursionLevel == 3

TargetA == <<"h", ":", "/", "/", "a">>
TargetB == <<"h", ":", "/", "/", "b", "/">>
AllTargets == <<TargetA, TargetB, TargetA \o <<Backslash>>, TargetB \o <<"c">> >>
PathX == <<"x">>
PathY == <<"y", "/">>
AllPaths == <<PathX, PathY, <<Slash, "z">>, <<"w", Slash, "v">> >>

Min(a, b) == IF a < b THEN a ELSE b
Max(a, b) == IF a < b THEN b ELSE a

\* the lists of targets handed to Scan, and the lists GeneratePaths returns
TargetLists == { SubSeq(AllTargets, 1, n) : n \in 0..Min(MaxLoad - 1, Len(AllTargets)) }
PathLists == { SubSeq(AllPaths, 1, n) : n \in 0..Min(MaxLoad - 1, Len(AllPaths)) }

\* the sub-lists of a list (domainChecker.CheckMultipleDomains keeps the alive ones)
RECURSIVE SubLists(_)
SubLists(l) ==
    IF l = <<>> THEN { <<>> }
    ELSE LET rest == SubLists(Tail(l)) IN rest \cup { <<Head(l)>> \o r : r \in rest }

\* Scanner.normalizeTargets
normalizeTargets(targets) ==
    [i \in 1..Len(targets) |->
        TrimSuffix(TrimSuffix(targets[i], Slash), Backslash) \o <<Slash>>]

LetterChars ==
    {"a","b","c","d","e","f","g","h","i","j","k","l","m",
     "n","o","p","q","r","s","t","u","v","w","x","y","z"}
\* net/url getScheme: a letter, then letters, digits, '+', '-' and '.'
SchemeChars == LetterChars \cup {DigitChars[k] : k \in 1..10} \cup {"+", "-", "."}
\* net/url parseHost: bytes of a host that shouldEscape rejects (InvalidHostError)
InvalidHostChars == {Backslash, Space}

\* url.Parse(u), as far as buildURL reads it: the error, parsedURL.Scheme == ""
\* and parsedURL.Host == "".  The authority runs from "//" to the next '/'.
\* User info, '?', '#' and '%' escapes are not among the inputs.
urlParse(u) ==
    LET i == IndexOf(u, ":")
        scheme == i > 1 /\ u[1] \in LetterChars /\ \A k \in 1..(i - 1) : u[k] \in SchemeChars
        rest == SubSeq(u, i + 1, Len(u))
        slashes == Len(rest) >= 2 /\ rest[1] = Slash /\ rest[2] = Slash
        after == SubSeq(rest, 3, Len(rest))
        j == IndexOf(after, Slash)
        authority == IF ~slashes THEN <<>>
                     ELSE IF j = 0 THEN after ELSE SubSeq(after, 1, j - 1)
    IN  [ err |-> \/ i = 1
                  \/ \E k \in 1..Len(authority) : authority[k] \in InvalidHostChars,
          noScheme |-> ~scheme,
          noHost |-> authority = <<>> ]

\* buildURL's test of the parsed URL: it parsed, with a scheme and a host
HasSchemeAndHost(u) ==
    LET parsedURL == urlParse(u) IN
    ~parsedURL.err /\ ~parsedURL.noScheme /\ ~parsedURL.noHost

\* Scanner.buildURL (fullURL is bound as an element of a set, so that it is
\* computed once)
buildURL(target, path) ==
    CHOOSE built \in { IF HasSchemeAndHost(fullURL) THEN [url |-> fullURL, err |-> FALSE]
                       ELSE [url |-> <<>>, err |-> TRUE] :
                       fullURL \in {smartPathJoin(target, path)} } : TRUE

\* what s.requester.Request(fullURL) can come back with
\* (Headers is <<>> for a nil header map, <<v>> for a map whose Content-Type is v)
TextHtml == <<"t","e","x","t","/","h","t","m","l">>
ParentDirectory == <<"P","a","r","e","n","t"," ","D","i","r","e","c","t","o","r","y">>
RespListing == [err |-> FALSE, StatusCode |-> 200, Headers |-> <<TextHtml>>, Body |-> ParentDirectory]
RespNotFound == [err |-> FALSE, StatusCode |-> 404, Headers |-> <<TextHtml>>, Body |-> <<>>]
RespFailed == [err |-> TRUE, StatusCode |-> 0, Headers |-> <<>>, Body |-> <<>>]
Responses == {RespListing, RespNotFound, RespFailed}

\* Scanner.scanPath (plain HTTP mode): the result's URL is the target
scanPath(target, path, resp) ==
    LET result == [URL |-> target, Path |-> path, StatusCode |-> 0, Error |-> FALSE,
                   IsDirectory |-> FALSE, RecursionLevel |-> 0,
                   Headers |-> <<>>, Body |-> <<>>]
        built == buildURL(target, path)
    IN  IF built.err THEN [result EXCEPT !.Error = TRUE]
        ELSE IF resp.err THEN [result EXCEPT !.Error = TRUE]
        ELSE [result EXCEPT !.StatusCode = resp.StatusCode,
                            !.Headers = resp.Headers, !.Body = resp.Body]

\* convertSingleResult: the result as the API hands it out
convertSingleResult(result) ==
    [URL |-> result.URL, Path |-> result.Path, StatusCode |-> result.StatusCode,
     IsDirectory |-> result.IsDirectory, RecursionLevel |-> result.RecursionLevel,
     Error |-> result.Error]

IndexOfTitle == <<"<","t","i","t","l","e",">","I","n","d","e","x"," ","o","f">>
DirectoryListingFor ==
    <<"D","i","r","e","c","t","o","r","y"," ","l","i","s","t","i","n","g"," ","f","o","r">>

\* the bug of sniffing the body whatever the Content-Type is
isDirectoryIgnoresContentType(result) ==
    \/ HasSuffix(result.URL, Slash)
    \/ ContainsSeq(result.Body, IndexOfTitle)
    \/ ContainsSeq(result.Body, DirectoryListingFor)
    \/ ContainsSeq(result.Body, ParentDirectory)

\* Scanner.isDirectory
isDirectory(result) ==
    IF HasSuffix(result.URL, Slash) THEN TRUE
    ELSE IF result.Headers # <<>>
         THEN LET contentType == result.Headers[1] IN
              IF ContainsSeq(contentType, TextHtml)
              THEN \/ ContainsSeq(result.Body, IndexOfTitle)
                   \/ ContainsSeq(result.Body, DirectoryListingFor)
                   \/ ContainsSeq(result.Body, ParentDirectory)
              ELSE FALSE
         ELSE FALSE

RECURSIVE Directories(_)
\* performRecursiveScan's first loop: the URLs of the results taken as directories
Directories(results) ==
    IF results = <<>> THEN <<>>
    ELSE LET result == Head(results) IN
         (IF (result.StatusCode = 200 \/ result.StatusCode = 403) /\ isDirectory(result)
          THEN <<result.URL>> ELSE <<>>) \o Directories(Tail(results))

\* executeScan's recursion test
RecursionAllowedThroughCeiling(recursionLevel) == cfgRecursive /\ recursionLevel <= MaxRecursionLevel

RecursionAllowed(recursionLevel) == cfgRecursive /\ recursionLevel < MaxRecursionLevel

\* executeScan's pool size and channel capacity
workerCount == IF cfgThreads <= 0 THEN DefaultThreads ELSE cfgThreads
\* the capacity had the queues been made three times the pool size
ChanCapTriple == workerCount * 3
ChanCap == workerCount * 2

\* the bug of a wait that ends with the first worker to finish
wgWaitReturnsEarly(fr) == \E i \in 1..workerCount : fr.w[i].pc = "done"

\* the bug of no wait at all
wgWaitReturnsAtOnce(fr) == TRUE

\* the bug of a wg.Add(1) for the producer too, which never calls wg.Done()
wgWaitCountsProducer(fr) == FALSE

\* wg.Wait() can return: every worker of the pass has run its wg.Done()
wgWait(fr) == \A i \in 1..workerCount : fr.w[i].pc = "done"

WorkerStart == [pc |-> "recv", task |-> <<>>, res |-> <<>>]
WorkerDone == [pc |-> "done", task |-> <<>>, res |-> <<>>]

\* the state of an executeScan call that has started its goroutines; pathsBy
\* names the function whose call of s.dictionary.GeneratePaths() returned paths
NewPass(targets, paths, pathsBy, recursionLevel) ==
    [ level |-> recursionLevel, targets |-> targets, paths |-> paths, pathsBy |-> pathsBy,
      taskChan |-> <<>>, next |-> 0, prod |-> "run",
      w |-> [i \in 1..workerCount |-> WorkerStart],
      resultChan |-> <<>>, results |-> <<>>, coll |-> "ranging",
      pc |-> "wait", dirs |-> <<>>, di |-> 0, rec |-> <<>> ]

TaskCount(fr) == Len(fr.targets) * Len(fr.paths)

\* the k-th task of the producer's nested loops, k from 0
TaskAt(fr, k) ==
    [Target |-> fr.targets[(k \div Len(fr.paths)) + 1],
     Path |-> fr.paths[(k % Len(fr.paths)) + 1]]

Frames == 1..Len(stack)
Top == Len(stack)

ScanInit ==
    /\ scanPc = "idle"
    /\ scanTargets \in TargetLists
    /\ dictPaths \in PathLists
    /\ cfgThreads \in 1..MaxThreads
    /\ cfgThreads + Len(scanTargets) * Len(dictPaths) <= MaxLoad
    /\ cfgRecursive \in BOOLEAN
    /\ ctxDone = FALSE
    /\ stack = <<>>
    /\ orphans = <<>>
    /\ sResults = <<>>
    /\ scanRet = <<>>
    /\ gotResults = <<>>
    /\ dirBudget = MaxDirAnswers \div Max(1, Len(scanTargets) * Len(dictPaths))
    /\ JoinIdle /\ FilterIdle /\ DelayIdle /\ HostIdle /\ CallIdle /\ MemIdle

\* ---- Scan, main goroutine -------------------------------------------------

\* Scan: no target given, or no target alive: an error
ScanNoTargets ==
    /\ scanPc = "idle"
    /\ scanPc' = "failed"
    /\ UNCHANGED <<scanTargets, dictPaths, cfgThreads, cfgRecursive, ctxDone, stack, orphans,
                   sResults, scanRet, gotResults, dirBudget>>
    /\ UNCHANGED nonScanVars

\* Scan with alive targets and an empty path list: executeScan returns an empty list
ScanNoPaths(alive) ==
    /\ scanPc = "idle"
    /\ alive # <<>>
    /\ dictPaths = <<>>
    /\ scanRet' = <<>>
    /\ scanPc' = "done"
    /\ UNCHANGED <<scanTargets, dictPaths, cfgThreads, cfgRecursive, ctxDone, stack, orphans,
                   sResults, gotResults, dirBudget>>
    /\ UNCHANGED nonScanVars

\* Scan: normalizeTargets, GeneratePaths, executeScan(aliveTargets, paths, 0) up to
\* the start of its goroutines
ScanStart(alive) ==
    /\ scanPc = "idle"
    /\ alive # <<>>
    /\ dictPaths # <<>>
    /\ stack' = <<NewPass(normalizeTargets(alive), dictPaths, "Scan", 0)>>
    /\ scanPc' = "running"
    /\ UNCHANGED <<scanTargets, dictPaths, cfgThreads, cfgRecursive, ctxDone, orphans,
                   sResults, scanRet, gotResults, dirBudget>>
    /\ UNCHANGED nonScanVars

\* wg.Wait() returns; then the recursion test
PassWait ==
    /\ scanPc = "running"
    /\ stack[Top].pc = "wait"
    /\ wgWait(stack[Top])
    /\ stack' = IF RecursionAllowed(stack[Top].level)
                THEN [stack EXCEPT ![Top].pc = "recurse", ![Top].di = 1,
                                   ![Top].dirs = Directories(stack[Top].results)]
                ELSE [stack EXCEPT ![Top].pc = "return"]
    /\ UNCHANGED <<scanPc, scanTargets, dictPaths, cfgThreads, cfgRecursive, ctxDone, orphans,
                   sResults, scanRet, gotResults, dirBudget>>
    /\ UNCHANGED nonScanVars

\* performRecursiveScan's second loop: GeneratePaths again, executeScan on the next
\* directory, one level down
RecurseNext ==
    /\ scanPc = "running"
    /\ stack[Top].pc = "recurse"
    /\ stack[Top].di <= Len(stack[Top].dirs)
    /\ LET fr == stack[Top]
           subPaths == dictPaths
       IN stack' = Append([stack EXCEPT ![Top].pc = "child"],
                          NewPass(<<fr.dirs[fr.di]>>, subPaths, "performRecursiveScan",
                                  fr.level + 1))
    /\ UNCHANGED <<scanPc, scanTargets, dictPaths, cfgThreads, cfgRecursive, ctxDone, orphans,
                   sResults, scanRet, gotResults, dirBudget>>
    /\ UNCHANGED nonScanVars

\* performRecursiveScan returns; results = append(results, recursiveResults...)
RecurseDone ==
    /\ scanPc = "running"
    /\ stack[Top].pc = "recurse"
    /\ stack[Top].di > Len(stack[Top].dirs)
    /\ stack' = [stack EXCEPT ![Top].pc = "return",
                              ![Top].results = stack[Top].results \o stack[Top].rec]
    /\ UNCHANGED <<scanPc, scanTargets, dictPaths, cfgThreads, cfgRecursive, ctxDone, orphans,
                   sResults, scanRet, gotResults, dirBudget>>
    /\ UNCHANGED nonScanVars

\* return results: to performRecursiveScan's loop, or from Scan
PassReturn ==
    /\ scanPc = "running"
    /\ stack[Top].pc = "return"
    /\ LET fr == stack[Top] IN
       /\ orphans' = IF fr.prod = "run"
                     THEN Append(orphans, [left |-> TaskCount(fr) - fr.next,
                                           room |-> ChanCap - Len(fr.taskChan)])
                     ELSE orphans
       /\ IF Top = 1
          THEN /\ stack' = <<>>
               /\ scanRet' = fr.results
               /\ scanPc' = "done"
          ELSE /\ stack' = [SubSeq(stack, 1, Top - 1) EXCEPT
                               ![Top - 1].pc = "recurse",
                               ![Top - 1].di = @ + 1,
                               ![Top - 1].rec = @ \o fr.results]
               /\ UNCHANGED <<scanRet, scanPc>>
    /\ UNCHANGED <<scanTargets, dictPaths, cfgThreads, cfgRecursive, ctxDone,
                   sResults, gotResults, dirBudget>>
    /\ UNCHANGED nonScanVars

\* ---- the producer goroutine of pass f ----------------------------------------

\* taskChan <- ScanTask{...}; after the last task the loops end and the deferred
\* close(taskChan) runs, which blocks on nothing
ProducerSend(f) ==
    /\ stack[f].prod = "run"
    /\ stack[f].next < TaskCount(stack[f])
    /\ Len(stack[f].taskChan) < ChanCap
    /\ stack' = [stack EXCEPT ![f].taskChan = Append(@, TaskAt(stack[f], stack[f].next)),
                              ![f].next = @ + 1,
                              ![f].prod = IF stack[f].next + 1 = TaskCount(stack[f])
                                          THEN "closed" ELSE "run"]
    /\ UNCHANGED <<scanPc, scanTargets, dictPaths, cfgThreads, cfgRecursive, ctxDone, orphans,
                   sResults, scanRet, gotResults, dirBudget>>
    /\ UNCHANGED nonScanVars

\* the bug of a producer that returns on cancellation and leaves taskChan open
ProducerAfterCancelLeavesOpen == "gone"

\* the producer after its select took <-s.ctx.Done(): it returns, and its
\* deferred close(taskChan) has run
ProducerAfterCancel == "closed"

\* the select takes <-s.ctx.Done(): return, and the deferred close(taskChan)
ProducerCancelled(f) ==
    /\ stack[f].prod = "run"
    /\ stack[f].next < TaskCount(stack[f])
    /\ ctxDone
    /\ stack' = [stack EXCEPT ![f].prod = ProducerAfterCancel]
    /\ UNCHANGED <<scanPc, scanTargets, dictPaths, cfgThreads, cfgRecursive, ctxDone, orphans,
                   sResults, scanRet, gotResults, dirBudget>>
    /\ UNCHANGED nonScanVars

\* a producer whose executeScan has returned already
OrphanSend(k) ==
    /\ orphans[k].left > 0
    /\ orphans[k].room > 0
    /\ orphans' = [orphans EXCEPT ![k].left = @ - 1, ![k].room = @ - 1]
    /\ UNCHANGED <<scanPc, scanTargets, dictPaths, cfgThreads, cfgRecursive, ctxDone, stack,
                   sResults, scanRet, gotResults, dirBudget>>
    /\ UNCHANGED nonScanVars

OrphanEnd(k) ==
    /\ orphans[k].left = 0 \/ ctxDone
    /\ orphans' = [j \in 1..(Len(orphans) - 1) |-> IF j < k THEN orphans[j] ELSE orphans[j + 1]]
    /\ UNCHANGED <<scanPc, scanTargets, dictPaths, cfgThreads, cfgRecursive, ctxDone, stack,
                   sResults, scanRet, gotResults, dirBudget>>
    /\ UNCHANGED nonScanVars

\* ---- worker i of pass f ---------------------------------------------------

\* the bug of a worker that does not look at the context before it probes
WorkerAfterRecvIgnoresCancel(task) == [pc |-> "probing", task |-> <<task>>, res |-> <<>>]

\* the worker's first select, on the task it received: cancelled, return;
\* otherwise (default) go on to scanPath
WorkerAfterRecv(task) ==
    IF ctxDone THEN WorkerDone
    ELSE [pc |-> "probing", task |-> <<task>>, res |-> <<>>]

\* for task := range taskChan: a task is received; then the first select
WorkerRecv(f, i) ==
    /\ stack[f].w[i].pc = "recv"
    /\ stack[f].taskChan # <<>>
    /\ stack' = [stack EXCEPT ![f].w[i] = WorkerAfterRecv(Head(stack[f].taskChan)),
                              ![f].taskChan = Tail(@)]
    /\ UNCHANGED <<scanPc, scanTargets, dictPaths, cfgThreads, cfgRecursive, ctxDone, orphans,
                   sResults, scanRet, gotResults, dirBudget>>
    /\ UNCHANGED nonScanVars

\* for task := range taskChan: the channel is closed and empty, wg.Done()
WorkerExit(f, i) ==
    /\ stack[f].w[i].pc = "recv"
    /\ stack[f].taskChan = <<>>
    /\ stack[f].prod = "closed"
    /\ stack' = [stack EXCEPT ![f].w[i] = WorkerDone]
    /\ UNCHANGED <<scanPc, scanTargets, dictPaths, cfgThreads, cfgRecursive, ctxDone, orphans,
                   sResults, scanRet, gotResults, dirBudget>>
    /\ UNCHANGED nonScanVars

\* scanPath returns with the server's answer resp
WorkerProbe(f, i, resp) ==
    /\ stack[f].w[i].pc = "probing"
    /\ resp.StatusCode = 200 => dirBudget > 0
    /\ dirBudget' = IF resp.StatusCode = 200 THEN dirBudget - 1 ELSE dirBudget
    /\ LET task == stack[f].w[i].task[1] IN
       stack' = [stack EXCEPT ![f].w[i] = [pc |-> "send", task |-> <<>>,
                                           res |-> <<scanPath(task.Target, task.Path, resp)>>]]
    /\ UNCHANGED <<scanPc, scanTargets, dictPaths, cfgThreads, cfgRecursive, ctxDone, orphans,
                   sResults, scanRet, gotResults>>
    /\ UNCHANGED nonScanVars

\* the second select takes resultChan <- result
WorkerSend(f, i) ==
    /\ stack[f].w[i].pc = "send"
    /\ Len(stack[f].resultChan) < ChanCap
    /\ stack' = [stack EXCEPT ![f].resultChan = Append(@, stack[f].w[i].res[1]),
                              ![f].w[i] = WorkerStart]
    /\ UNCHANGED <<scanPc, scanTargets, dictPaths, cfgThreads, cfgRecursive, ctxDone, orphans,
                   sResults, scanRet, gotResults, dirBudget>>
    /\ UNCHANGED nonScanVars

\* the second select takes <-s.ctx.Done(): return, the result is dropped
WorkerSendCancelled(f, i) ==
    /\ stack[f].w[i].pc = "send"
    /\ ctxDone
    /\ stack' = [stack EXCEPT ![f].w[i] = WorkerDone]
    /\ UNCHANGED <<scanPc, scanTargets, dictPaths, cfgThreads, cfgRecursive, ctxDone, orphans,
                   sResults, scanRet, gotResults, dirBudget>>
    /\ UNCHANGED nonScanVars

\* ---- the collector goroutine of pass f ------------------------------------
\* Its range over resultChan ends only when resultChan is closed, and the only
\* close(resultChan) is its own deferred one: it has no exit step, and the field
\* coll of its pass, its position, stays "ranging".

\* for result := range resultChan: result.RecursionLevel = recursionLevel;
\* results = append(results, result)
CollectorCollect(f) ==
    /\ stack[f].resultChan # <<>>
    /\ stack' = [stack EXCEPT ![f].results =
                                 Append(@, [Head(stack[f].resultChan) EXCEPT
                                               !.RecursionLevel = stack[f].level]),
                              ![f].resultChan = Tail(@)]
    /\ UNCHANGED <<scanPc, scanTargets, dictPaths, cfgThreads, cfgRecursive, ctxDone, orphans,
                   sResults, scanRet, gotResults, dirBudget>>
    /\ UNCHANGED nonScanVars

\* ---- the API calls of other goroutines ------------------------------------

\* Scanner.Stop (no headless browser is configured)
Stop ==
    /\ scanPc \in {"idle", "running", "done"}
    /\ ~ctxDone
    /\ ctxDone' = TRUE
    /\ UNCHANGED <<scanPc, scanTargets, dictPaths, cfgThreads, cfgRecursive, stack, orphans,
                   sResults, scanRet, gotResults, dirBudget>>
    /\ UNCHANGED nonScanVars

\* Scanner.GetResults: a copy of s.results.  No step of the scanner writes
\* s.results (addResult has no caller), so a call made before Scan returns reads
\* what a call made after it reads; the calls after it are the ones modelled.
GetResults ==
    /\ scanPc = "done"
    /\ gotResults' = <<sResults>>
    /\ UNCHANGED <<scanPc, scanTargets, dictPaths, cfgThreads, cfgRecursive, ctxDone, stack,
                   orphans, sResults, scanRet, dirBudget>>
    /\ UNCHANGED nonScanVars

MainStep ==
    \/ ScanNoTargets
    \/ \E alive \in SubLists(scanTargets) : ScanNoPaths(alive)
    \/ \E alive \in SubLists(scanTargets) : ScanStart(alive)
    \/ PassWait
    \/ RecurseNext
    \/ RecurseDone
    \/ PassReturn

ProducerStep ==
    \/ \E f \in Frames : ProducerSend(f)
    \/ \E f \in Frames : ProducerCancelled(f)
    \/ \E k \in 1..Len(orphans) : OrphanSend(k)
    \/ \E k \in 1..Len(orphans) : OrphanEnd(k)

WorkerStep ==
    \/ \E f \in Frames, i \in 1..workerCount : WorkerRecv(f, i)
    \/ \E f \in Frames, i \in 1..workerCount : WorkerExit(f, i)
    \/ \E f \in Frames, i \in 1..workerCount, resp \in Responses : WorkerProbe(f, i, resp)
    \/ \E f \in Frames, i \in 1..workerCount : WorkerSend(f, i)
    \/ \E f \in Frames, i \in 1..workerCount : WorkerSendCancelled(f, i)

CollectorStep == \E f \in Frames : CollectorCollect(f)

Next ==
    \/ MainStep
    \/ ProducerStep
    \/ WorkerStep
    \/ CollectorStep
    \/ Stop
    \/ GetResults

Spec == ScanInit /\ [][Next]_vars

\* The Go scheduler runs every goroutine that can take a step, and every probe
\* returns.  Stop and GetResults are calls the embedding program may never make.
FairSpec ==
    /\ ScanInit
    /\ [][Next]_vars
    /\ WF_vars(MainStep)
    /\ WF_vars(ProducerStep)
    /\ WF_vars(WorkerStep)
    /\ WF_vars(CollectorStep)

\* ---- panics ------------------------------------------------------------------
\* A panic raised while worker i of pass f works on its task.  Raised inside
\* scanPath (or below it), it is recovered by scanPath's deferred function and
\* scanPath returns the zero ScanResult, which the worker goes on to send.  Raised
\* in the statements of the worker's loop after scanPath (the delay, the send), it
\* is recovered by the deferred function of worker(), which is outside the loop:
\* worker() returns and the wrapper's deferred wg.Done() runs.
ZeroResult ==
    [URL |-> <<>>, Path |-> <<>>, StatusCode |-> 0, Error |-> FALSE,
     IsDirectory |-> FALSE, RecursionLevel |-> 0, Headers |-> <<>>, Body |-> <<>>]

FaultSites == {"scanPath", "worker"}

WorkerFault(f, i, site) ==
    /\ stack[f].w[i].pc = "probing"
    /\ stack' = [stack EXCEPT ![f].w[i] =
                    IF site = "scanPath"
                    THEN [pc |-> "send", task |-> <<>>, res |-> <<ZeroResult>>]
                    ELSE WorkerDone]
    /\ UNCHANGED <<scanPc, scanTargets, dictPaths, cfgThreads, cfgRecursive, ctxDone, orphans,
                   sResults, scanRet, gotResults, dirBudget>>
    /\ UNCHANGED nonScanVars

FaultNext ==
    \/ Next
    \/ \E f \in Frames, i \in 1..workerCount, site \in FaultSites : WorkerFault(f, i, site)

FaultSpec == ScanInit /\ [][FaultNext]_vars

\* The scanner again, on scans of one target whose servers answer 200 often
\* enough for two directories at one level and a directory below the first.
MaxDeepAnswers == 3
MaxDeepThreads == 1

DeepInit ==
    /\ scanPc = "idle"
    /\ scanTargets = <<TargetA>>
    /\ dictPaths \in PathLists
    /\ Len(dictPaths) <= 2
    /\ cfgThreads \in 1..MaxDeepThreads
    /\ cfgRecursive \in BOOLEAN
    /\ ctxDone = FALSE
    /\ stack = <<>>
    /\ orphans = <<>>
    /\ sResults = <<>>
    /\ scanRet = <<>>
    /\ gotResults = <<>>
    /\ dirBudget = MaxDeepAnswers
    /\ JoinIdle /\ FilterIdle /\ DelayIdle /\ HostIdle /\ CallIdle /\ MemIdle

DeepSpec == DeepInit /\ [][Next]_vars

(***************************************************************************)
(* Dictionary.GeneratePaths (src/internal/dictionary/dictionary.go).  A    *)
(* dictionary dict holds the loaded words, the extension, prefix and       *)
(* suffix lists, ExcludeExtensions and the two mode flags.                 *)
(***************************************************************************)
Dot == "."
ExtToken == <<"%", "E", "X", "T", "%">>

RECURSIVE ReplaceAll(_, _, _)
\* strings.ReplaceAll(s, old, new) for a non-empty old
ReplaceAll(s, old, new) ==
    IF Len(s) < Len(old) THEN s
    ELSE IF HasPrefixSeq(s, old)
         THEN new \o ReplaceAll(SubSeq(s, Len(old) + 1, Len(s)), old, new)
         ELSE <<Head(s)>> \o ReplaceAll(Tail(s), old, new)

UpperChars ==
    <<"A","B","C","D","E","F","G","H","I","J","K","L","M",
      "N","O","P","Q","R","S","T","U","V","W","X","Y","Z">>
LowerChars ==
    <<"a","b","c","d","e","f","g","h","i","j","k","l","m",
      "n","o","p","q","r","s","t","u","v","w","x","y","z">>

\* strings.ToLower
ToLower(s) ==
    [i \in 1..Len(s) |->
        IF \E k \in 1..26 : UpperChars[k] = s[i]
        THEN LowerChars[CHOOSE k \in 1..26 : UpperChars[k] = s[i]]
        ELSE s[i]]

AlnumChars == LetterChars \cup {DigitChars[k] : k \in 1..10} \cup {UpperChars[k] : k \in 1..26}

\* Dictionary.shouldExcludeWord
shouldExcludeWord(dict, word) ==
    \E k \in 1..Len(dict.excludeExtensions) :
        HasSuffixSeq(word, <<Dot>> \o dict.excludeExtensions[k])

protectedExts ==
    << <<"l","o","g">>, <<"j","s","o","n">>, <<"x","m","l">>, <<"j","p","g">>,
       <<"j","p","e","g">>, <<"p","n","g">>, <<"g","i","f">>, <<"b","m","p">>,
       <<"i","c","o">>, <<"s","v","g">>, <<"c","s","s">>, <<"j","s">>,
       <<"w","o","f","f">>, <<"w","o","f","f","2">>, <<"t","t","f">>, <<"e","o","t">> >>

\* where the regexp \.[a-zA-Z0-9]+$ matches in word: the index of its '.', or 0
extRegexMatch(word) ==
    LET at == {k \in 1..(Len(word) - 1) :
                  /\ word[k] = Dot
                  /\ \A j \in (k + 1)..Len(word) : word[j] \in AlnumChars}
    IN  IF at = {} THEN 0 ELSE CHOOSE k \in at : TRUE

\* Dictionary.replaceExtension
replaceExtension(word, newExt) ==
    IF \E k \in 1..Len(protectedExts) : HasSuffixSeq(ToLower(word), <<Dot>> \o protectedExts[k])
    THEN word
    ELSE IF extRegexMatch(word) > 0
         THEN SubSeq(word, 1, extRegexMatch(word) - 1) \o <<Dot>> \o newExt
         ELSE word \o <<Dot>> \o newExt

\* the bug of a force-extensions branch that emits the directory form first
ForcedPathsDirectoryFirst(word, exts) ==
    <<word \o <<Slash>>, word>> \o [k \in 1..Len(exts) |-> word \o <<Dot>> \o exts[k]]

\* GeneratePaths' force-extensions branch for one word
ForcedPaths(word, exts) ==
    <<word>> \o [k \in 1..Len(exts) |-> word \o <<Dot>> \o exts[k]] \o <<word \o <<Slash>> >>

\* the bug of a default branch that, like the other two, appends the word first
PathsOfWordKeepsWord(dict, word) ==
    LET exts == dict.extensions
        forms ==
            IF dict.ForceExtensions
            THEN ForcedPaths(word, exts)
            ELSE IF dict.OverwriteExtensions
            THEN <<word>> \o [k \in 1..Len(exts) |-> replaceExtension(word, exts[k])]
            ELSE IF ContainsSeq(word, ExtToken)
            THEN <<word>> \o [k \in 1..Len(exts) |-> ReplaceAll(word, ExtToken, exts[k])]
            ELSE <<word>>
        prefixed == [k \in 1..Len(dict.prefixes) |-> dict.prefixes[k] \o word]
        suffixed == IF HasSuffixSeq(word, <<Slash>>) THEN <<>>
                    ELSE [k \in 1..Len(dict.suffixes) |-> word \o dict.suffixes[k]]
    IN  forms \o prefixed \o suffixed

\* what the body of GeneratePaths' loop appends for one word that is not excluded
PathsOfWord(dict, word) ==
    LET exts == dict.extensions
        forms ==
            IF dict.ForceExtensions
            THEN ForcedPaths(word, exts)
            ELSE IF dict.OverwriteExtensions
            THEN <<word>> \o [k \in 1..Len(exts) |-> replaceExtension(word, exts[k])]
            ELSE IF ContainsSeq(word, ExtToken)
            THEN [k \in 1..Len(exts) |-> ReplaceAll(word, ExtToken, exts[k])]
            ELSE <<word>>
        prefixed == [k \in 1..Len(dict.prefixes) |-> dict.prefixes[k] \o word]
        suffixed == IF HasSuffixSeq(word, <<Slash>>) THEN <<>>
                    ELSE [k \in 1..Len(dict.suffixes) |-> word \o dict.suffixes[k]]
    IN  forms \o prefixed \o suffixed

RECURSIVE EmittedPaths(_, _)
\* the paths GeneratePaths' loop over words has appended, before deduplicate
EmittedPaths(dict, words) ==
    IF words = <<>> THEN <<>>
    ELSE (IF shouldExcludeWord(dict, Head(words)) THEN <<>>
          ELSE PathsOfWord(dict, Head(words))) \o EmittedPaths(dict, Tail(words))

RECURSIVE deduplicateFrom(_, _)
\* deduplicate's loop: result so far, paths still to visit
deduplicateFrom(result, paths) ==
    IF paths = <<>> THEN result
    ELSE IF \E k \in 1..Len(result) : result[k] = Head(paths)
         THEN deduplicateFrom(result, Tail(paths))
         ELSE deduplicateFrom(Append(result, Head(paths)), Tail(paths))

\* the bug of a deduplicate that returns its input
deduplicateKeepsAll(paths) == paths

\* Dictionary.deduplicate
deduplicate(paths) == deduplicateFrom(<<>>, paths)

\* Dictionary.GeneratePaths: the paths, and the error (never one)
GeneratePaths(dict) == deduplicate(EmittedPaths(dict, dict.words))

(***************************************************************************)
(* The GeneratePaths harness: one call on each dictionary.                 *)
(***************************************************************************)
MaxWords == 2

Php == <<"p","h","p">>
Txt == <<"t","x","t">>
DictWords ==
    { Admin, <<"a">>, <<"a", Slash>>, <<"a", Dot, "p","h","p">>,
      <<"a", Dot, "L","O","G">>, <<"x", Dot>> \o ExtToken }
WordLists == UNION { [1..n -> DictWords] : n \in 0..MaxWords }
ExtensionLists == { <<>>, <<Php>>, <<Php, Txt>>, <<Php, Php>> }
PrefixLists == { <<>>, << <<Dot>> >> }
SuffixLists == { <<>>, << <<"~">> >>, << <<Slash>>, <<Dot, "p","h","p">> >> }
ExcludeLists == { <<>>, <<Php>> }
DictModes == { [force |-> TRUE, overwrite |-> FALSE], [force |-> FALSE, overwrite |-> TRUE],
               [force |-> FALSE, overwrite |-> FALSE], [force |-> TRUE, overwrite |-> TRUE] }

DictInit ==
    /\ \E w \in WordLists, e \in ExtensionLists, pf \in PrefixLists, sf \in SuffixLists,
          x \in ExcludeLists, m \in DictModes :
          callArgs = [words |-> w, extensions |-> e, prefixes |-> pf, suffixes |-> sf,
                      excludeExtensions |-> x, ForceExtensions |-> m.force,
                      OverwriteExtensions |-> m.overwrite]
    /\ callRet = <<>>
    /\ callPc = "call"
    /\ JoinIdle /\ FilterIdle /\ DelayIdle /\ HostIdle /\ ScanIdle /\ MemIdle

\* one call of dict.GeneratePaths()
DictCall ==
    /\ callPc = "call"
    /\ callRet' = GeneratePaths(callArgs)
    /\ callPc' = "done"
    /\ UNCHANGED <<callArgs, joinVars, filterVars, delayVars, hostVars, scanVars, memVars>>

DictNext == DictCall

DictSpec == DictInit /\ [][DictNext]_vars

(***************************************************************************)
(* The ParseStatusCodes harness: one call on each status specification.    *)
(***************************************************************************)
WellFormedItems == { CodeItem(200), CodeItem(404), RangeItem(301, 303), RangeItem(200, 299) }

\* the comma-separated parts a specification is made of: codes and ranges, an open
\* range, a word, a padded code, a reversed range, an empty part, a double range
PartTexts ==
    { RenderItem(it) : it \in WellFormedItems }
    \cup { <<"2","0","0",Dash>>, <<"a","b","c">>, <<Space,"3","0","1",Space>>,
           <<"3","0","3",Dash,"3","0","1">>, <<>>,
           <<"2","0","0",Dash,"2","0","1",Dash,"2","0","2">> }

MixedCodesText == <<"2","0","0",Comma,"3","0","1",Dash,"3","0","3",Comma,"4","0","4">>

ParseTexts ==
    PartTexts \cup { a \o <<Comma>> \o b : a \in PartTexts, b \in PartTexts }
              \cup { MixedCodesText }

ParseInit ==
    /\ callArgs \in ParseTexts
    /\ callRet = <<>>
    /\ callPc = "call"
    /\ JoinIdle /\ FilterIdle /\ DelayIdle /\ HostIdle /\ ScanIdle /\ MemIdle

\* one call of config.ParseStatusCodes(statusStr)
ParseCall ==
    /\ callPc = "call"
    /\ callRet' = ParseStatusCodes(callArgs)
    /\ callPc' = "done"
    /\ UNCHANGED <<callArgs, joinVars, filterVars, delayVars, hostVars, scanVars, memVars>>

ParseNext == ParseCall

ParseSpec == ParseInit /\ [][ParseNext]_vars

(***************************************************************************)
(* The retained result list: Scanner.addResult and Scanner.GetResults, and *)
(* a caller that appends to and overwrites the slice GetResults gave it.   *)
(* A slice is an address of a backing array and a length; the capacity is  *)
(* the length of the array.  A result is known by its status code.         *)
(***************************************************************************)
MaxArrays == 4
MaxRetained == 2

ResultCodes == {200, 404}
Text404 == <<"4", "0", "4">>

cap(sl) == IF sl.arr = 0 THEN 0 ELSE Len(heap[sl.arr])
SliceValue(sl) == IF sl.arr = 0 THEN <<>> ELSE SubSeq(heap[sl.arr], 1, sl.len)

\* Go's append(sl, x): in place when the capacity allows, else into a new array
\* of grown capacity; the new heap and the new slice
append(sl, x) ==
    IF sl.len < cap(sl)
    THEN [heap |-> [heap EXCEPT ![sl.arr][sl.len + 1] = x],
          slice |-> [arr |-> sl.arr, len |-> sl.len + 1]]
    ELSE LET newcap == IF cap(sl) = 0 THEN 1 ELSE 2 * cap(sl)
             array == [i \in 1..newcap |->
                          IF i <= sl.len THEN heap[sl.arr][i]
                          ELSE IF i = sl.len + 1 THEN x ELSE 0]
         IN  [heap |-> Append(heap, array),
              slice |-> [arr |-> Len(heap) + 1, len |-> sl.len + 1]]

\* the bug of returning s.results itself
GetResultsNoCopy(sl) == [heap |-> heap, slice |-> sl]

\* GetResults' body: results := make([]ScanResult, len(s.results));
\* copy(results, s.results); return results
GetResultsCopy(sl) ==
    [heap |-> Append(heap, SliceValue(sl)),
     slice |-> [arr |-> Len(heap) + 1, len |-> sl.len]]

MemInit ==
    /\ heap = <<>>
    /\ resSlice = NilSlice
    /\ gotSlice = NilSlice
    /\ retained = <<>>
    /\ cfgIncludeStatus = <<>>
    /\ cfgExcludeStatus \in { <<>>, <<Text404>> }
    /\ fStatus = 0 /\ fOut = FALSE /\ fpc = "off"
    /\ JoinIdle /\ DelayIdle /\ HostIdle /\ ScanIdle /\ CallIdle

\* s.addResult(result)
MemAddResult(code) ==
    /\ Len(retained) < MaxRetained
    /\ Len(heap) < MaxArrays
    /\ IF shouldIncludeResult(cfgIncludeStatus, cfgExcludeStatus, code)
       THEN /\ heap' = append(resSlice, code).heap
            /\ resSlice' = append(resSlice, code).slice
            /\ retained' = Append(retained, code)
       ELSE UNCHANGED <<heap, resSlice, retained>>
    /\ UNCHANGED <<gotSlice, joinVars, filterVars, delayVars, hostVars, scanVars, callVars>>

\* got := s.GetResults()
MemGetResults ==
    /\ Len(heap) < MaxArrays
    /\ heap' = GetResultsCopy(resSlice).heap
    /\ gotSlice' = GetResultsCopy(resSlice).slice
    /\ UNCHANGED <<resSlice, retained, joinVars, filterVars, delayVars, hostVars, scanVars,
                   callVars>>

\* the caller: got = append(got, x)
CallerAppend(code) ==
    /\ gotSlice.len < MaxRetained + 1
    /\ Len(heap) < MaxArrays
    /\ heap' = append(gotSlice, code).heap
    /\ gotSlice' = append(gotSlice, code).slice
    /\ UNCHANGED <<resSlice, retained, joinVars, filterVars, delayVars, hostVars, scanVars,
                   callVars>>

\* the caller: got[i] = x
CallerOverwrite(i, code) ==
    /\ i \in 1..gotSlice.len
    /\ heap' = [heap EXCEPT ![gotSlice.arr][i] = code]
    /\ UNCHANGED <<resSlice, gotSlice, retained, joinVars, filterVars, delayVars, hostVars,
                   scanVars, callVars>>

MemNext ==
    \/ \E code \in ResultCodes : MemAddResult(code)
    \/ MemGetResults
    \/ \E code \in ResultCodes \cup {0} : CallerAppend(code)
    \/ \E i \in 1..MaxRetained, code \in ResultCodes \cup {0} : CallerOverwrite(i, code)

MemSpec == MemInit /\ [][MemNext]_vars

(***************************************************************************)
(* The buildURL harness: one call on each target and path.                 *)
(***************************************************************************)
Http == <<"h","t","t","p",":","/","/">>
Https == <<"h","t","t","p","s",":","/","/">>
InvalidUrl == <<"i","n","v","a","l","i","d","-","u","r","l">>

BuildTargets ==
    { ExampleCom, ExampleCom \o <<Slash>>, ExampleCom \o <<Backslash>>,
      ExampleCom \o <<Slash, "a","p","i">>, Http \o <<"h">>, Http \o <<"h", Slash>>,
      InvalidUrl, Https, <<"h", Slash>>, <<":", Slash, Slash, "h">> }

BuildPaths ==
    { <<>>, Admin, <<Slash>> \o Admin, <<Backslash>> \o Admin, Admin \o <<Slash>>,
      <<"a", Slash, "b">>, <<"a", Backslash, "b">>, <<"x">> }

BuildInit ==
    /\ callArgs \in [target : BuildTargets, path : BuildPaths]
    /\ callRet = <<>>
    /\ callPc = "call"
    /\ JoinIdle /\ FilterIdle /\ DelayIdle /\ HostIdle /\ ScanIdle /\ MemIdle

\* one call of s.buildURL(target, path)
BuildCall ==
    /\ callPc = "call"
    /\ callRet' = buildURL(callArgs.target, callArgs.path)
    /\ callPc' = "done"
    /\ UNCHANGED <<callArgs, joinVars, filterVars, delayVars, hostVars, scanVars, memVars>>

BuildNext == BuildCall

BuildSpec == BuildInit /\ [][BuildNext]_vars

(***************************************************************************)
(* The isDirectory harness: one call on each URL, header map and body.     *)
(***************************************************************************)
Charset == <<";"," ","c","h","a","r","s","e","t","=","u","t","f","-","8">>
TextPlain == <<"t","e","x","t","/","p","l","a","i","n">>
TextHtmlUpper == <<"T","E","X","T","/","H","T","M","L">>
DirURLs == { <<>>, TargetB, TargetB \o <<"x">> }
DirHeaders ==
    { <<>>, << <<>> >>, <<TextHtml>>, <<TextHtml \o Charset>>, <<TextPlain>>, <<TextHtmlUpper>> }
DirBodies ==
    { <<>>, IndexOfTitle, DirectoryListingFor, ParentDirectory,
      <<"<","p",">">> \o ParentDirectory \o <<"<","/","p",">">>,
      SubSeq(IndexOfTitle, 1, 12), Tail(DirectoryListingFor),
      <<"p","a","r","e","n","t"," ","d","i","r","e","c","t","o","r","y">> }

DirInit ==
    /\ callArgs \in [URL : DirURLs, Headers : DirHeaders, Body : DirBodies]
    /\ callRet = <<>>
    /\ callPc = "call"
    /\ JoinIdle /\ FilterIdle /\ DelayIdle /\ HostIdle /\ ScanIdle /\ MemIdle

\* one call of s.isDirectory(result)
DirCall ==
    /\ callPc = "call"
    /\ callRet' = isDirectory(callArgs)
    /\ callPc' = "done"
    /\ UNCHANGED <<callArgs, joinVars, filterVars, delayVars, hostVars, scanVars, memVars>>

DirNext == DirCall

DirSpec == DirInit /\ [][DirNext]_vars

(***************************************************************************)
(* executeScan's sizing of a pass, also for a thread count that was left   *)
(* unset or is negative: the pool and the two queues it would make.  The   *)
(* scans themselves run with the thread counts of ScanInit.                *)
(***************************************************************************)
UnsetThreads == {-1, 0}

PoolInit ==
    /\ scanPc = "off" /\ scanTargets = <<>> /\ dictPaths = <<>>
    /\ cfgThreads \in UnsetThreads
    /\ cfgRecursive = FALSE /\ ctxDone = FALSE
    /\ stack = <<>> /\ orphans = <<>> /\ sResults = <<>> /\ scanRet = <<>>
    /\ gotResults = <<>> /\ dirBudget = 0
    /\ callArgs = <<>> /\ callRet = <<>> /\ callPc = "call"
    /\ JoinIdle /\ FilterIdle /\ DelayIdle /\ HostIdle /\ MemIdle

\* the first lines of executeScan: the number of workers and the capacities of
\* taskChan and of resultChan
PoolCall ==
    /\ callPc = "call"
    /\ callRet' = [workers |-> workerCount, taskChan |-> ChanCap, resultChan |-> ChanCap]
    /\ callPc' = "done"
    /\ UNCHANGED <<callArgs, joinVars, filterVars, delayVars, hostVars, scanVars, memVars>>

PoolNext == Next \/ PoolCall

PoolSpec == (ScanInit \/ PoolInit) /\ [][PoolNext]_vars

(***************************************************************************)
(* Requester.Request's deadline (src/unnamed/part_001): the http.Client    *)
(* made by NewRequester has its own Timeout, and Request puts the host's   *)
(* smart timeout on the request's context.  Durations in milliseconds.     *)
(***************************************************************************)
\* NewRequester: time.Duration(cfg.Connection.Timeout) * time.Second drops the
\* fraction of the configured seconds; a Timeout of 0 means no limit
ClientTimeout(cfgTimeout) == (cfgTimeout \div 1000) * 1000

\* the time after which client.Do gives up on a request that gets no answer: the
\* earlier of the client's Timeout and the deadline of the request's context
RequestDeadline(pingDelay, cfgTimeout) ==
    LET timeout == GetTimeout(pingDelay, cfgTimeout)
        client == ClientTimeout(cfgTimeout)
    IN  IF client = 0 THEN timeout ELSE Min(client, timeout)

ReqInit ==
    /\ callArgs \in [pingDelay : 0..MaxBaselineMs, cfgTimeout : {c.timeout : c \in DelayConfigs}]
    /\ callRet = <<>>
    /\ callPc = "call"
    /\ JoinIdle /\ FilterIdle /\ DelayIdle /\ HostIdle /\ ScanIdle /\ MemIdle

\* one call of r.Request(url) for a host whose measured delay is pingDelay, on a
\* server that never answers
ReqCall ==
    /\ callPc = "call"
    /\ callRet' = RequestDeadline(callArgs.pingDelay, callArgs.cfgTimeout)
    /\ callPc' = "done"
    /\ UNCHANGED <<callArgs, joinVars, filterVars, delayVars, hostVars, scanVars, memVars>>

ReqNext == ReqCall

ReqSpec == ReqInit /\ [][ReqNext]_vars

(***************************************************************************)
(* The normalizeTargets harness: one call on each list of targets, the     *)
(* targets ending with up to MaxTrailing separators.                       *)
(***************************************************************************)
MaxTrailing == 3
MaxTargets == 2

Separators == {Slash, Backslash}
Trailers == UNION { [1..n -> Separators] : n \in 0..MaxTrailing }
NormTargets == { base \o t : base \in {TargetA, TargetB \o <<"c">>}, t \in Trailers }

NormInit ==
    /\ callArgs \in UNION { [1..n -> NormTargets] : n \in 0..MaxTargets }
    /\ callRet = <<>>
    /\ callPc = "call"
    /\ JoinIdle /\ FilterIdle /\ DelayIdle /\ HostIdle /\ ScanIdle /\ MemIdle

\* one call of s.normalizeTargets(targets)
NormCall ==
    /\ callPc = "call"
    /\ callRet' = normalizeTargets(callArgs)
    /\ callPc' = "done"
    /\ UNCHANGED <<callArgs, joinVars, filterVars, delayVars, hostVars, scanVars, memVars>>

NormNext == NormCall

NormSpec == NormInit /\ [][NormNext]_vars

(***************************************************************************)
(* Properties.                                                             *)
(***************************************************************************)

\* the results of pass fr that carry its own level
OwnResults(fr) == SelectSeq(fr.results, LAMBDA r : r.RecursionLevel = fr.level)

\* how many of the submitted tasks of pass fr are the task tk
TasksLike(fr, tk) == Cardinality({k \in 0..(TaskCount(fr) - 1) : TaskAt(fr, k) = tk})

\* how many results of pass fr, at its own level, come from the task tk
ResultsOf(fr, tk) ==
    Cardinality({j \in 1..Len(fr.results) :
                    /\ fr.results[j].RecursionLevel = fr.level
                    /\ fr.results[j].URL = tk.Target
                    /\ fr.results[j].Path = tk.Path})

\* C1: when a pass is past its wg.Wait() and Stop has not been called, no result is
\* left in its result queue and its result list holds, at its own level, exactly one
\* result per submitted (target, path) task.
C1_PassDrained ==
    \A f \in Frames :
        (stack[f].pc # "wait" /\ ~ctxDone) =>
            /\ stack[f].resultChan = <<>>
            /\ Len(OwnResults(stack[f])) = TaskCount(stack[f])
            /\ \A k \in 0..(TaskCount(stack[f]) - 1) :
                  ResultsOf(stack[f], TaskAt(stack[f], k))
                      = TasksLike(stack[f], TaskAt(stack[f], k))

\* the results of a list that shouldIncludeResult accepts
Retained(results) ==
    SelectSeq(results,
              LAMBDA r : shouldIncludeResult(cfgIncludeStatus, cfgExcludeStatus, r.StatusCode))

\* C2: a GetResults() call made after Scan returned gives exactly the results of the
\* scan that shouldIncludeResult accepts.
C2_ResultsAggregated ==
    (scanPc = "done" /\ gotResults # <<>>) => gotResults[1] = Retained(scanRet)

\* C3: once Stop() has been called while Scan is running, Scan returns, and every
\* producer has finished, the ones outlived by their pass included.
C3_StopReturns ==
    (ctxDone /\ scanPc = "running") ~> (scanPc = "done" /\ orphans = <<>>)

\* C3's case: Stop() called while a producer is blocked on its send to a full
\* task queue, with a worker ready to receive from that queue
C3_Witness ==
    /\ ctxDone
    /\ scanPc = "running"
    /\ \E f \in Frames :
          /\ stack[f].prod = "run"
          /\ stack[f].next < TaskCount(stack[f])
          /\ Len(stack[f].taskChan) = ChanCap
          /\ \E i \in 1..workerCount : stack[f].w[i].pc = "recv"

\* C4: no pass runs at a recursion level above 3.
C4_LevelCeiling == \A f \in Frames : stack[f].level <= 3

\* C4's case: recursion is enabled, every probe so far was answered 200 and taken
\* as a directory, and the level-3 pass is past its recursion test
C4_Witness ==
    /\ cfgRecursive
    /\ Len(stack) = 4
    /\ stack[4].level = 3
    /\ stack[4].pc = "return"
    /\ \A f \in Frames :
          /\ stack[f].results # <<>>
          /\ Directories(stack[f].results) = [j \in 1..Len(stack[f].results) |->
                                                 stack[f].results[j].URL]

\* C5: the target of a pass one level down is the join of a target and a path of
\* the pass above it, and is none of the targets of the pass above it.
C5_NewDirectoryTargets ==
    \A f \in Frames :
        f >= 2 =>
            \A n \in 1..Len(stack[f].targets) :
                /\ \A m \in 1..Len(stack[f - 1].targets) :
                      stack[f].targets[n] # stack[f - 1].targets[m]
                /\ \E m \in 1..Len(stack[f - 1].targets), p \in 1..Len(stack[f - 1].paths) :
                      stack[f].targets[n]
                          = smartPathJoin(stack[f - 1].targets[m], stack[f - 1].paths[p])

\* C6: whatever the interleaving of the registry calls of concurrent workers, at most
\* one calibration is made per non-empty host key, also when the first one failed.
C6_SingleCalibration == \A h \in HostKeys : pingCount[h] <= 1

\* C6's case: a calibration failed, and a later caller of the same host was served
\* from the cache while another caller was on its way in for that host
C6_Witness ==
    \E h \in HostKeys, c \in Callers :
        /\ pingCount[h] = 1
        /\ hosts[h].cached /\ ~hosts[h].IsAlive
        /\ hmCallers[c].pc = "gotinfo" /\ hmCallers[c].hit /\ hmCallers[c].host = h
        /\ \E d \in Callers \ {c} : hmCallers[d].pc = "enter" /\ hmCallers[d].host = h

\* C7: for every baseline latency in [0, 10 s], 0 included, the smart delay lies in
\* [100 ms, 5 s] and the smart timeout lies in [5 s, 30 s].
C7_TimingClamps ==
    /\ sdpc \in {"delay", "both"} => sdDelayOut \in MinDelayMs..MaxDelayMs
    /\ sdpc \in {"timeout", "both"} => sdTimeoutOut \in MinTimeoutMs..MaxTimeoutMs

\* what a status item written by the user means
ItemMatches(it, status) ==
    \/ it.kind = "code" /\ status = it.a
    \/ it.kind = "range" /\ it.a <= status /\ status <= it.b

ListMatches(entries, status) ==
    \E k \in 1..Len(entries) : \E i \in 1..Len(entries[k]) : ItemMatches(entries[k][i], status)

Text200 == <<"2", "0", "0">>
Text301 == <<"3", "0", "1">>
Text301to302 == <<"3", "0", "1", "-", "3", "0", "2">>

\* C8: shouldIncludeResult retains a result unless an include list is configured and
\* the status matches none of its codes or ranges, or the status matches an exclude
\* code or range (exclusion wins); include ["200","301-302"] keeps {200,301,302} of
\* {200,301,302,404}, and with exclude ["301"] it keeps {200,302}.
C8_FilterRule ==
    fpc = "done" =>
        /\ \A inc \in StatusLists, exc \in StatusLists :
              (RenderList(inc) = cfgIncludeStatus /\ RenderList(exc) = cfgExcludeStatus) =>
                  fOut = ~( \/ (Len(inc) > 0 /\ ~ListMatches(inc, fStatus))
                            \/ ListMatches(exc, fStatus) )
        /\ (cfgIncludeStatus = <<Text200, Text301to302>> /\ cfgExcludeStatus = <<>>)
              => fOut = (fStatus \in {200, 301, 302})
        /\ (cfgIncludeStatus = <<Text200, Text301to302>> /\ cfgExcludeStatus = <<Text301>>)
              => fOut = (fStatus \in {200, 302})

\* C8's case: a code listed by both lists has been dropped
C8_Witness ==
    /\ fpc = "done"
    /\ cfgIncludeStatus = <<Text200, Text301to302>>
    /\ cfgExcludeStatus = <<Text301>>
    /\ fStatus = 301
    /\ fOut = FALSE

\* the base without one trailing '/' and then without one trailing '\'
TrimmedBase(B) ==
    LET n1 == IF Len(B) > 0 /\ B[Len(B)] = "/" THEN Len(B) - 1 ELSE Len(B)
        n2 == IF n1 > 0 /\ B[n1] = "\\" THEN n1 - 1 ELSE n1
    IN  [i \in 1..n2 |-> B[i]]

StartsWithSeparator(P) == Len(P) > 0 /\ P[1] \in {"/", "\\"}

WithoutLeadingSeparator(P) ==
    IF StartsWithSeparator(P) THEN [i \in 1..(Len(P) - 1) |-> P[i + 1]] ELSE P

\* C10: smartPathJoin puts exactly one forward slash between base and path, whatever
\* separator the base ends with and the path starts with: a leading '\' of the path
\* becomes '/'; smartPathJoin("https://example.com/", "\admin") =
\* "https://example.com/admin".
C10_OneForwardSlash ==
    (jpc = "done" /\ jpath # <<>>) =>
        jout = TrimmedBase(jbase) \o <<"/">> \o WithoutLeadingSeparator(jpath)

\* C11: the result of smartPathJoin never ends with a separator: an empty path gives
\* the base without its trailing separator, and a trailing '/' of the path is dropped
\* (base "https://example.com/" with "" gives "https://example.com").
C11_NoTrailingSeparator ==
    jpc = "done" =>
        /\ ~HasSuffix(jout, Slash)
        /\ ~HasSuffix(jout, Backslash)
        /\ (jpath = <<>> => jout = TrimmedBase(jbase))

\* s begins with the characters of p
StartsWith(s, p) == Len(s) >= Len(p) /\ SubSeq(s, 1, Len(p)) = p

\* an absolute http(s) URL: "http://" or "https://" and then a host name
AbsoluteHttpURL(t) ==
    \E p \in {Http, Https} :
        /\ StartsWith(t, p)
        /\ Len(t) > Len(p)
        /\ t[Len(p) + 1] \in AlnumChars

\* C12: buildURL fails for a target with no scheme or no host ("invalid-url"), and
\* for an absolute http(s) target it returns the joined URL with no error, whatever
\* separators meet at the junction.
C12_BuildURL ==
    callPc = "done" =>
        /\ callArgs.target = InvalidUrl => callRet.err
        /\ AbsoluteHttpURL(callArgs.target) =>
              /\ ~callRet.err
              /\ callRet.url = smartPathJoin(callArgs.target, callArgs.path)

\* the entries of seq without the ones met earlier in seq, in the order of seq
FirstOccurrences(seq) ==
    LET keep == {i \in 1..Len(seq) : \A j \in 1..(i - 1) : seq[j] # seq[i]}
    IN  [k \in 1..Cardinality(keep) |->
            seq[CHOOSE i \in keep : Cardinality({j \in keep : j <= i}) = k]]

\* force-extensions, one word: the word, word.ext in list order, the directory form
ForcedForms(w, exts) ==
    [i \in 1..(Len(exts) + 2) |->
        IF i = 1 THEN w
        ELSE IF i = Len(exts) + 2 THEN w \o <<"/">>
        ELSE w \o <<".">> \o exts[i - 1]]

RECURSIVE ForcedSynthesis(_, _)
\* the synthesizer's steps 1 to 4 in force-extensions mode, over the words ws
ForcedSynthesis(d, ws) ==
    IF ws = <<>> THEN <<>>
    ELSE LET w == Head(ws)
             skipped == \E k \in 1..Len(d.excludeExtensions) :
                            HasSuffixSeq(w, <<".">> \o d.excludeExtensions[k])
             isDir == Len(w) > 0 /\ w[Len(w)] = "/"
         IN  (IF skipped THEN <<>>
              ELSE ForcedForms(w, d.extensions)
                   \o [k \in 1..Len(d.prefixes) |-> d.prefixes[k] \o w]
                   \o (IF isDir THEN <<>> ELSE [k \in 1..Len(d.suffixes) |-> w \o d.suffixes[k]]))
             \o ForcedSynthesis(d, Tail(ws))

AdminPhp == <<"a","d","m","i","n",".","p","h","p">>
AdminDir == <<"a","d","m","i","n","/">>

\* C13: in force-extensions mode GeneratePaths emits, per word, the word, then
\* word.ext for every extension in list order, then word/; words ["admin"] with
\* extensions ["php"] give exactly ["admin", "admin.php", "admin/"].
C13_ForceExtensions ==
    (callPc = "done" /\ callArgs.ForceExtensions) =>
        /\ callRet = FirstOccurrences(ForcedSynthesis(callArgs, callArgs.words))
        /\ ( /\ callArgs.words = <<Admin>> /\ callArgs.extensions = <<Php>>
              /\ callArgs.prefixes = <<>> /\ callArgs.suffixes = <<>>
              /\ callArgs.excludeExtensions = <<>> )
              => callRet = <<Admin, AdminPhp, AdminDir>>

\* C13's case: the call on words ["admin"] and extensions ["php"] has returned
C13_Witness ==
    /\ callPc = "done"
    /\ callArgs.ForceExtensions
    /\ callArgs.words = <<Admin>> /\ callArgs.extensions = <<Php>>
    /\ callArgs.prefixes = <<>> /\ callArgs.suffixes = <<>>
    /\ callArgs.excludeExtensions = <<>>
    /\ callRet = <<Admin, AdminPhp, AdminDir>>

\* C14: the list GeneratePaths returns has no repeated entry and is the emitted
\* sequence with every later occurrence removed, for every dictionary.
C14_Deduplicated ==
    callPc = "done" =>
        /\ \A i \in 1..Len(callRet), j \in 1..Len(callRet) : callRet[i] = callRet[j] => i = j
        /\ callRet = FirstOccurrences(EmittedPaths(callArgs, callArgs.words))

\* C14's case: a word list with a repeated word, whose emitted sequence was longer
\* than the list returned
C14_Witness ==
    /\ callPc = "done"
    /\ Len(callArgs.words) = 2
    /\ callArgs.words[1] = callArgs.words[2]
    /\ callRet # <<>>
    /\ Len(callRet) < Len(EmittedPaths(callArgs, callArgs.words))

\* C15: with an empty path list (an empty word list) Scan does not return a result
\* list: it fails, and no probe has been made.
C15_EmptyWordlistFails ==
    (dictPaths = <<>> /\ scanPc # "idle") => (scanPc = "failed" /\ stack = <<>>)

\* C16: ParseStatusCodes returns an error for a malformed specification: the open
\* range "200-" and the non-numeric code "abc".
C16_MalformedRejected ==
    (callPc = "done" /\ callArgs \in { <<"2","0","0","-">>, <<"a","b","c">> }) => callRet.err

RECURSIVE Expansion(_)
\* the codes a list of codes and inclusive ranges stands for, in order
Expansion(items) ==
    IF items = <<>> THEN <<>>
    ELSE [i \in 1..(Head(items).b - Head(items).a + 1) |-> Head(items).a + i - 1]
         \o Expansion(Tail(items))

\* C17: ParseStatusCodes expands a comma-separated specification in order, a code as
\* itself and a range "A-B" as every integer from A to B: "200,301-303,404" gives
\* [200,301,302,303,404] and "200-299" gives the 100 codes 200..299.
C17_ExpandsInOrder ==
    callPc = "done" =>
        /\ \A n \in 1..3 : \A items \in [1..n -> WellFormedItems] :
              RenderEntry(items) = callArgs =>
                  callRet = [codes |-> Expansion(items), err |-> FALSE]
        /\ callArgs = MixedCodesText => callRet.codes = <<200, 301, 302, 303, 404>>
        /\ callArgs = <<"2","0","0","-","2","9","9">> =>
              /\ Len(callRet.codes) = 100
              /\ \A i \in 1..100 : callRet.codes[i] = 199 + i

\* C17's case: the mixed specification has been parsed
C17_Witness ==
    /\ callPc = "done"
    /\ callArgs = MixedCodesText
    /\ callRet.codes = <<200, 301, 302, 303, 404>>
    /\ ~callRet.err

\* C18: whatever the caller appends to or overwrites in a slice GetResults returned,
\* the retained result list holds what addResult put there, and so does the value
\* of every later GetResults call.
C18_ReturnsCopy ==
    /\ SliceValue(resSlice) = retained
    /\ LET r == GetResultsCopy(resSlice) IN
       IF r.slice.arr = 0 THEN retained = <<>>
       ELSE SubSeq(r.heap[r.slice.arr], 1, r.slice.len) = retained

\* C18's case: the caller has overwritten an element of the slice it was given and
\* appended to it, so that it differs from the retained list, which is not empty
C18_Witness ==
    /\ retained # <<>>
    /\ gotSlice.len > Len(retained)
    /\ SliceValue(gotSlice)[1] # retained[1]

\* the results pass fr holds: its own and the ones its recursive passes returned
HeldResults(fr) == IF fr.pc = "return" THEN fr.results ELSE fr.results \o fr.rec

\* C19: in a scan of pairwise different targets, no (target, path) pair is probed
\* twice at one recursion level: no two results of a level share target and path.
C19_ProbedOncePerLevel ==
    \A f \in Frames :
        (\A m, n \in 1..Len(stack[1].targets) :
            stack[1].targets[m] = stack[1].targets[n] => m = n)
        => \A i, j \in 1..Len(HeldResults(stack[f])) :
              ( /\ HeldResults(stack[f])[i].RecursionLevel = HeldResults(stack[f])[j].RecursionLevel
                /\ HeldResults(stack[f])[i].URL = HeldResults(stack[f])[j].URL
                /\ HeldResults(stack[f])[i].Path = HeldResults(stack[f])[j].Path )
              => i = j

\* C20: the URL of every result the API returns is the full URL that was probed,
\* the join of a scanned target and the result's path, and not the target.
C20_ResultURLIsProbedURL ==
    scanPc = "done" =>
        \A j \in 1..Len(scanRet) :
            LET apiResult == convertSingleResult(scanRet[j])
                scanned == normalizeTargets(scanTargets)
            IN  /\ \E t \in 1..Len(scanned) :
                      apiResult.URL = smartPathJoin(scanned[t], apiResult.Path)
                /\ \A t \in 1..Len(scanned) : apiResult.URL # scanned[t]

\* the three literal substrings of a directory listing
ListingMarkers == {IndexOfTitle, DirectoryListingFor, ParentDirectory}
\* the Content-Type of a header map, "" when the map is nil or has none
ContentTypeOf(headers) == IF headers = <<>> THEN <<>> ELSE headers[1]

\* C28: isDirectory is true exactly when the URL ends with "/", or the Content-Type
\* contains "text/html" and the body contains one of the three listing markers;
\* the call leaves the scanner's state as it was.
C28_IsDirectoryPredicate ==
    callPc = "done" =>
        /\ callRet = ( \/ HasSuffix(callArgs.URL, Slash)
                        \/ /\ ContainsSeq(ContentTypeOf(callArgs.Headers), TextHtml)
                           /\ \E m \in ListingMarkers : ContainsSeq(callArgs.Body, m) )
        /\ ScanIdle /\ MemIdle

\* C28's case: a result whose URL has no trailing "/", taken as a directory for
\* its HTML Content-Type and the marker in its body
C28_Witness ==
    /\ callPc = "done"
    /\ ~HasSuffix(callArgs.URL, Slash)
    /\ ContainsSeq(callArgs.Body, DirectoryListingFor)
    /\ callArgs.Headers = <<TextHtml \o Charset>>
    /\ callRet = TRUE

\* C21 as stated: while a probe of a pass at level N is in flight, no result of a
\* level above N exists yet, in any pass of the scan.
C21_LevelsSequential ==
    \A f \in Frames : \A i \in 1..workerCount :
        stack[f].w[i].pc = "probing" =>
            \A g \in Frames : \A k \in 1..Len(HeldResults(stack[g])) :
                HeldResults(stack[g])[k].RecursionLevel <= stack[f].level

\* C21, amended: a pass at level N+1 runs only after every worker of the pass at
\* level N that found its directory has finished; while a pass is on the call
\* stack, every worker of every pass below it is done.
C21_ParentPassFinished ==
    \A f, g \in Frames :
        f < g => \A i \in DOMAIN stack[f].w : stack[f].w[i].pc = "done"

\* C21's case: a probe in flight at level 1, under the finished pass of level 0
C21_Witness ==
    /\ Len(stack) = 2
    /\ \A i \in DOMAIN stack[1].w : stack[1].w[i].pc = "done"
    /\ stack[2].level = 1
    /\ \E i \in 1..workerCount : stack[2].w[i].pc = "probing"

\* a pass with a worker that has not returned
HasRunningWorker(fr) == \E i \in DOMAIN fr.w : fr.w[i].pc # "done"

\* C22: at most one pass has running workers at any moment, and no two passes of
\* one recursion level exist together: a directory's pass starts after the pass of
\* the directory before it has returned.
C22_OnePassRunning ==
    /\ \A f, g \in Frames :
          (HasRunningWorker(stack[f]) /\ HasRunningWorker(stack[g])) => f = g
    /\ \A f, g \in Frames : stack[f].level = stack[g].level => f = g

\* C22's case: the pass of the second directory of level 0 is probing, after the
\* pass of the first has returned its results
C22_Witness ==
    /\ Len(stack) = 2
    /\ stack[1].di = 2
    /\ stack[1].rec # <<>>
    /\ \E i \in DOMAIN stack[2].w : stack[2].w[i].pc = "probing"

\* the next step of the scanning goroutine reads or appends to the result list of
\* pass f: performRecursiveScan(results, ...), append(results, ...), return results
ScanTouchesResults(f) ==
    /\ f = Top
    /\ \/ stack[f].pc = "wait" /\ \A i \in DOMAIN stack[f].w : stack[f].w[i].pc = "done"
       \/ stack[f].pc = "recurse" /\ stack[f].di > Len(stack[f].dirs)
       \/ stack[f].pc = "return"

\* C23: appends to and reads of a result list exclude each other: in no state can
\* the collector of a pass append to the list that the scanning goroutine is about
\* to read or append to.
C23_ResultListSerialized ==
    \A f \in Frames : ~(ENABLED CollectorCollect(f) /\ ScanTouchesResults(f))

\* C24: once Stop() has been called, a worker that takes a task leaves its loop
\* without probing it; and a producer that has taken the cancellation has closed
\* its task queue and enqueues nothing more.
C24_NoNewWorkAfterStop ==
    [][ Len(stack') = Len(stack) =>
          \A f \in Frames :
             /\ \A i \in DOMAIN stack[f].w :
                   ( /\ ctxDone
                     /\ stack[f].w[i].pc = "recv"
                     /\ stack'[f].w[i].pc # "recv" )
                   => stack'[f].w[i].pc = "done"
             /\ ( /\ stack[f].prod = "run"
                  /\ stack'[f].prod # "run"
                  /\ stack'[f].next = stack[f].next )
                => (ctxDone /\ stack'[f].prod = "closed")
             /\ stack[f].prod # "run"
                => /\ stack'[f].prod = stack[f].prod
                   /\ stack'[f].next = stack[f].next
                   /\ Len(stack'[f].taskChan) <= Len(stack[f].taskChan) ]_vars

\* C24's case: after Stop() the producer has given up with tasks left to send, and
\* a worker is about to take a task that was queued before
C24_Witness ==
    /\ ctxDone
    /\ \E f \in Frames :
          /\ stack[f].prod = "closed"
          /\ stack[f].next < TaskCount(stack[f])
          /\ stack[f].taskChan # <<>>
          /\ \E i \in DOMAIN stack[f].w : stack[f].w[i].pc = "recv"

\* C25: a panic raised while a worker works on a task ends neither the worker nor
\* the pool: unless Stop() was called, a worker returns only when the task queue is
\* closed and empty, every task having been taken.
C25_FaultIsolated ==
    \A f \in Frames : \A i \in DOMAIN stack[f].w :
        (stack[f].w[i].pc = "done" /\ ~ctxDone) =>
            /\ stack[f].prod = "closed"
            /\ stack[f].taskChan = <<>>
            /\ stack[f].next = TaskCount(stack[f])

\* the results, the ones still on their way to the collector included
AllResults(fr) ==
    fr.results \o fr.rec \o fr.resultChan

\* C26: a probe that fails in transport gives a result with its error set and the
\* status code 0, and costs the scan nothing else: when a pass with a failed probe
\* returns, Stop() not called, it returns a result for every task it was given.
C26_TransportFailureContained ==
    \A f \in Frames :
        /\ \A j \in 1..Len(AllResults(stack[f])) :
              AllResults(stack[f])[j].Error => AllResults(stack[f])[j].StatusCode = 0
        /\ ( /\ stack[f].pc = "return"
             /\ ~ctxDone
             /\ \E j \in 1..Len(stack[f].results) : stack[f].results[j].Error )
           => \A k \in 0..(TaskCount(stack[f]) - 1) :
                 ResultsOf(stack[f], TaskAt(stack[f], k)) >= 1

\* C27: every pass, at every level and for every directory, gets the path list
\* that Scan generated, and no other call of GeneratePaths is made for it.
C27_PathsGeneratedOnce ==
    \A f \in Frames :
        /\ stack[f].paths = stack[1].paths
        /\ stack[f].pathsBy = "Scan"

\* what the workers of pass fr have produced: the results the collector has
\* appended, at the level of the pass, and the ones still in the result queue
Produced(fr) == OwnResults(fr) \o fr.resultChan

\* C29: when a pass at a level below 3 goes on to recurse, every result of the pass
\* that isDirectory accepts, whatever its status code, is the target of one pass at
\* the next level: the list of directories has one entry per such result.
C29_DirectoriesScheduled ==
    \A f \in Frames :
        stack[f].pc \in {"recurse", "child"} =>
            Len(stack[f].dirs) =
                Cardinality({j \in 1..Len(Produced(stack[f])) :
                                isDirectory(Produced(stack[f])[j])})

\* the pool size as the specification gives it
PoolSizeOf(threads) == IF threads <= 0 THEN 25 ELSE threads

\* the probes of pass fr that are in flight
InFlight(fr) == {i \in DOMAIN fr.w : fr.w[i].pc = "probing"}

\* C30: at every moment of a pass at most pool-size probes are in flight, the pool
\* size being the configured thread count, or 25 when that is unset or not positive,
\* and the task queue and the result queue each hold at most twice the pool size.
C30_PoolAndQueuesBounded ==
    /\ \A f \in Frames :
          /\ Cardinality(InFlight(stack[f])) <= PoolSizeOf(cfgThreads)
          /\ Len(stack[f].taskChan) <= 2 * PoolSizeOf(cfgThreads)
          /\ Len(stack[f].resultChan) <= 2 * PoolSizeOf(cfgThreads)
    /\ (callPc = "done" /\ scanPc = "off") =>
          /\ callRet.workers = PoolSizeOf(cfgThreads)
          /\ callRet.taskChan <= 2 * PoolSizeOf(cfgThreads)
          /\ callRet.resultChan <= 2 * PoolSizeOf(cfgThreads)

\* a pass whose whole pool is probing while its task queue is full
C30_Witness ==
    \E f \in Frames :
        /\ Cardinality(InFlight(stack[f])) = PoolSizeOf(cfgThreads)
        /\ Len(stack[f].taskChan) = 2 * PoolSizeOf(cfgThreads)

\* C31: the deadline of a probe is the smart timeout resolved for the URL's host:
\* the request is given up exactly when that timeout has elapsed, and no other
\* timeout bounds it.
C31_DeadlineIsSmartTimeout ==
    callPc = "done" => callRet = GetTimeout(callArgs.pingDelay, callArgs.cfgTimeout)

\* where the token %EXT% starts in word
TokenAt(word) == {p \in 1..(Len(word) - 4) : SubSeq(word, p, p + 4) = ExtToken}

\* word with its token, at p, replaced by ext
Substituted(word, p, ext) == SubSeq(word, 1, p - 1) \o ext \o SubSeq(word, p + 5, Len(word))

\* what the extension step is to emit for word in default mode (words here hold the
\* token at most once)
DefaultForms(word, exts) ==
    IF TokenAt(word) = {} THEN <<word>>
    ELSE [k \in 1..Len(exts) |-> Substituted(word, CHOOSE p \in TokenAt(word) : TRUE, exts[k])]

RECURSIVE DefaultFormsOfAll(_, _)
DefaultFormsOfAll(words, exts) ==
    IF words = <<>> THEN <<>>
    ELSE DefaultForms(Head(words), exts) \o DefaultFormsOfAll(Tail(words), exts)

\* the index of the first occurrence of x in the sequence s
FirstAt(s, x) == CHOOSE k \in 1..Len(s) : s[k] = x /\ \A j \in 1..(k - 1) : s[j] # x

\* a call of GeneratePaths in default mode on a dictionary where only the extension
\* step emits paths: no prefixes, no suffixes, no excluded extensions
DefaultModeOnly ==
    /\ callPc = "done"
    /\ ~callArgs.ForceExtensions /\ ~callArgs.OverwriteExtensions
    /\ callArgs.prefixes = <<>> /\ callArgs.suffixes = <<>> /\ callArgs.excludeExtensions = <<>>

\* C32: in default mode the extension step emits, for a word with %EXT%, one path
\* per extension with the token replaced by it, in extension order, and a word
\* without %EXT% unchanged: GeneratePaths returns exactly these paths, each once,
\* in the order they were first emitted.
C32_DefaultModeForms ==
    DefaultModeOnly =>
        LET forms == DefaultFormsOfAll(callArgs.words, callArgs.extensions) IN
        /\ {callRet[k] : k \in 1..Len(callRet)} = {forms[k] : k \in 1..Len(forms)}
        /\ \A i, j \in 1..Len(callRet) :
              i < j => FirstAt(forms, callRet[i]) < FirstAt(forms, callRet[j])

\* a word with %EXT% was expanded for two different extensions, next to a plain word
C32_Witness ==
    /\ DefaultModeOnly
    /\ callArgs.extensions = <<Php, Txt>>
    /\ callArgs.words = << <<"x", Dot>> \o ExtToken, Admin >>
    /\ callRet = << <<"x", Dot>> \o Php, <<"x", Dot>> \o Txt, Admin >>

\* C38: in default mode with a non-empty extension list no path that GeneratePaths
\* returns contains the token %EXT%, also when prefixes or suffixes are configured.
C38_NoTokenLeft ==
    (/\ callPc = "done"
     /\ ~callArgs.ForceExtensions /\ ~callArgs.OverwriteExtensions
     /\ callArgs.extensions # <<>>) =>
        \A k \in 1..Len(callRet) : TokenAt(callRet[k]) = {}

\* how many separators, '/' or '\', end s
RECURSIVE TrailingSeparators(_)
TrailingSeparators(s) ==
    IF s # <<>> /\ s[Len(s)] \in Separators
    THEN 1 + TrailingSeparators(SubSeq(s, 1, Len(s) - 1))
    ELSE 0

\* C33: normalizeTargets maps every target to a URL that ends with exactly one
\* trailing separator, also a target that already ends with one or several '/' or
\* '\' characters.
C33_OneTrailingSeparator ==
    callPc = "done" =>
        /\ Len(callRet) = Len(callArgs)
        /\ \A i \in 1..Len(callRet) : TrailingSeparators(callRet[i]) = 1

\* C34: the goroutines a pass started terminate once the pass is over, also after
\* Stop(): when executeScan returns, its workers have ended, and its collector is
\* not left blocked on a result queue that is empty and has no sender any more.
C34_GoroutinesEnd ==
    \A f \in Frames :
        stack[f].pc = "return" =>
            /\ \A i \in DOMAIN stack[f].w : stack[f].w[i].pc = "done"
            /\ ~(stack[f].coll = "ranging" /\ stack[f].resultChan = <<>>)

\* C35: with no Stop() call and every probe returning, Scan terminates, also with
\* recursive scanning enabled and every result taken as a directory: unless the
\* scan is stopped, it returns, with its results or with an error.
C35_ScanTerminates == <>(scanPc \in {"done", "failed"} \/ ctxDone)

\* C35's case: a recursive scan that was never stopped has returned after it ran
\* passes down to level 3
C35_Witness ==
    /\ scanPc = "done"
    /\ ~ctxDone
    /\ cfgRecursive
    /\ \E k \in 1..Len(scanRet) : scanRet[k].RecursionLevel = MaxRecursionLevel

\* caller c has called for the timing state of a host that is calibrated already
ResolvesCalibrated(c) ==
    /\ hmCallers[c].pc = "enter"
    /\ hmCallers[c].host # EmptyHost
    /\ hosts[hmCallers[c].host].cached

\* caller d is calibrating a host other than the one c asks for
CalibratesAnother(d, c) ==
    /\ hmCallers[d].pc = "pinging"
    /\ hmCallers[d].host # hmCallers[c].host

\* C37: a worker that resolves the timing state of an already-calibrated host is
\* never blocked by a calibration in progress for a different host: it can take
\* its step and get the cached state.
C37_CalibratedHostNotBlocked ==
    \A c, d \in Callers :
        (ResolvesCalibrated(c) /\ CalibratesAnother(d, c)) => ENABLED HMLockHit(c)

\* C36: every result that performRecursiveScan took as a directory and used as a
\* recursion target has IsDirectory set in the list Scan returns: a result at a
\* level above 0 comes from a pass on such a target, so the list holds a result of
\* the level before with status 200 or 403 and the flag set.
C36_TargetsFlagged ==
    scanPc = "done" =>
        \A k \in 1..Len(scanRet) :
            scanRet[k].RecursionLevel > 0 =>
                \E j \in 1..Len(scanRet) :
                    /\ scanRet[j].RecursionLevel = scanRet[k].RecursionLevel - 1
                    /\ scanRet[j].StatusCode \in {200, 403}
                    /\ scanRet[j].IsDirectory

====
